---- MODULE Spec2Model ----
(***************************************************************************)
(* A model of unity_sds_client.resources: Collection, Dataset, DataFile,  *)
(* the role-filtered queries data_files / data_locations, the STAC        *)
(* writer and reader Collection.to_stac / Collection.from_stac, and of    *)
(* UnitySession, Unity.client and DataService.create_collection.          *)
(*                                                                         *)
(* Strings that the code inspects character by character (locations,      *)
(* hrefs, directories, dataset ids) are sequences of one-character         *)
(* strings, with the file name endings "catalog.json" and ".json" kept as *)
(* single tokens.  Identifiers that are only compared (collection ids,     *)
(* roles, timestamps) are TLA+ strings.  Python's None is the value None.  *)
(***************************************************************************)
EXTENDS Integers, Sequences, FiniteSets, TLC

None == "<None>"

Range(s) == {s[i] : i \in 1..Len(s)}

(***************************************************************************)
(* Python str and os.path primitives, on sequences of characters.         *)
(***************************************************************************)

\* str.startswith(prefix)
StartsWith(s, prefix) ==
    /\ Len(prefix) <= Len(s)
    /\ SubSeq(s, 1, Len(prefix)) = prefix

\* str.endswith(suffix)
EndsWith(s, suffix) ==
    /\ Len(suffix) <= Len(s)
    /\ SubSeq(s, Len(s) - Len(suffix) + 1, Len(s)) = suffix

\* str.rstrip(ch)
RECURSIVE RStrip(_, _)
RStrip(s, ch) ==
    IF s # <<>> /\ s[Len(s)] = ch THEN RStrip(SubSeq(s, 1, Len(s) - 1), ch) ELSE s

\* str.replace(old, new): every non-overlapping occurrence, leftmost first;
\* an empty old matches before every character and at the end.
RECURSIVE ReplaceFrom(_, _, _)
ReplaceFrom(s, old, new) ==
    IF s = <<>> THEN <<>>
    ELSE IF StartsWith(s, old)
         THEN new \o ReplaceFrom(SubSeq(s, Len(old) + 1, Len(s)), old, new)
         ELSE <<s[1]>> \o ReplaceFrom(Tail(s), old, new)

RECURSIVE Intersperse(_, _)
Intersperse(s, new) ==
    IF s = <<>> THEN new ELSE new \o <<s[1]>> \o Intersperse(Tail(s), new)

Replace(s, old, new) ==
    IF old = <<>> THEN Intersperse(s, new) ELSE ReplaceFrom(s, old, new)

\* index of the last "/" of p, 0 when there is none (str.rfind + 1)
LastSlash(p) ==
    LET at == {i \in 1..Len(p) : p[i] = "/"}
    IN  IF at = {} THEN 0 ELSE CHOOSE i \in at : \A j \in at : j <= i

\* os.path.basename
Basename(p) == SubSeq(p, LastSlash(p) + 1, Len(p))

\* os.path.dirname: the head up to the last "/", its trailing slashes stripped
\* unless it consists of slashes only
Dirname(p) ==
    LET head == SubSeq(p, 1, LastSlash(p))
    IN  IF head # <<>> /\ Range(head) # {"/"} THEN RStrip(head, "/") ELSE head

\* os.path.isabs
IsAbs(p) == StartsWith(p, <<"/">>)

\* os.path.join(a, b)
Join(a, b) ==
    IF IsAbs(b) THEN b
    ELSE IF a = <<>> \/ EndsWith(a, <<"/">>) THEN a \o b
    ELSE a \o <<"/">> \o b

\* str.split("/")
RECURSIVE SplitSlash(_)
SplitSlash(p) ==
    LET at == {i \in 1..Len(p) : p[i] = "/"}
    IN  IF at = {} THEN <<p>>
        ELSE LET i == CHOOSE k \in at : \A j \in at : k <= j
             IN  <<SubSeq(p, 1, i - 1)>> \o SplitSlash(SubSeq(p, i + 1, Len(p)))

\* the component loop of os.path.normpath
RECURSIVE NormComps(_, _, _)
NormComps(comps, acc, rooted) ==
    IF comps = <<>> THEN acc
    ELSE LET c == comps[1]
             dotdot == <<".", ".">>
         IN  IF c = <<>> \/ c = <<".">> THEN NormComps(Tail(comps), acc, rooted)
             ELSE IF c # dotdot
                     \/ (~rooted /\ acc = <<>>)
                     \/ (acc # <<>> /\ acc[Len(acc)] = dotdot)
                  THEN NormComps(Tail(comps), Append(acc, c), rooted)
             ELSE IF acc # <<>>
                  THEN NormComps(Tail(comps), SubSeq(acc, 1, Len(acc) - 1), rooted)
             ELSE NormComps(Tail(comps), acc, rooted)

RECURSIVE JoinSlash(_)
JoinSlash(comps) ==
    IF comps = <<>> THEN <<>>
    ELSE IF Len(comps) = 1 THEN comps[1]
    ELSE comps[1] \o <<"/">> \o JoinSlash(Tail(comps))

\* os.path.normpath (a path starting with exactly two slashes keeps both)
NormPath(p) ==
    IF p = <<>> THEN <<".">>
    ELSE LET rooted == IsAbs(p)
             slashes == IF StartsWith(p, <<"/", "/">>) /\ ~StartsWith(p, <<"/", "/", "/">>)
                        THEN <<"/", "/">>
                        ELSE IF rooted THEN <<"/">> ELSE <<>>
             body == JoinSlash(NormComps(SplitSlash(p), <<>>, rooted))
             path == slashes \o body
         IN  IF path = <<>> THEN <<".">> ELSE path

\* the working directory of the process
Cwd == <<"/">>

\* os.path.abspath
AbsPath(p) == NormPath(IF IsAbs(p) THEN p ELSE Join(Cwd, p))

(***************************************************************************)
(* Python dict: a function from keys to values.                           *)
(***************************************************************************)
EmptyDict == [k \in {} |-> None]

\* dict.update(other)
DictUpdate(d, other) ==
    [k \in DOMAIN d \cup DOMAIN other |-> IF k \in DOMAIN other THEN other[k] ELSE d[k]]

\* dict.get(key, None)
DictGet(d, key) == IF key \in DOMAIN d THEN d[key] ELSE None

(***************************************************************************)
(* Bounds and the inputs the callers draw from.                           *)
(***************************************************************************)
MaxDatasets == 2
MaxFiles == 2

CollectionIds == {"c1", "c2"}

T1 == "2023-06-15T01:31:12Z"
T2 == "2023-06-15T01:36:12Z"
\* a timestamp that dateutil parses and that is not in the ISO 8601 form
T3 == "2023-06-15 01:31:12"
\* a creation time
T4 == "2023-06-16T00:00:00Z"
\* a text that is no timestamp
T5 == "yesterday"

\* Dataset(name, collection_id, start_time, end_time, creation_time)
DatasetArgs ==
    { [name |-> <<"a">>, collection_id |-> "c1", start_time |-> T1, creation_time |-> None],
      [name |-> <<"a">>, collection_id |-> "c2", start_time |-> T1, creation_time |-> T4],
      [name |-> <<"b">>, collection_id |-> "c2", start_time |-> T3, creation_time |-> None],
      [name |-> <<"b">>, collection_id |-> None, start_time |-> T1, creation_time |-> None],
      [name |-> <<"b">>, collection_id |-> "c1", start_time |-> None, creation_time |-> None],
      [name |-> <<"a">>, collection_id |-> "c1", start_time |-> T5, creation_time |-> None] }

(***************************************************************************)
(* DataFile, Dataset, Collection.                                         *)
(***************************************************************************)

\* DataFile.__init__
DataFile(type, location, roles, title, description) ==
    [type |-> type, location |-> location, roles |-> roles,
     title |-> title, description |-> description]

\* DataFile(type, location, roles=...) as the callers build them
DataFiles ==
    { DataFile("data", <<"/", "d", "/", "f">>, <<"data">>, "", ""),
      DataFile("metadata", <<".", "/", "f">>, <<>>, "", ""),
      DataFile("data", <<"s", "3", ":", "f">>, <<"data", "metadata">>, "", ""),
      DataFile("metadata", <<"/", "e", "/", "f">>, <<"metadata">>, "", "") }

ReservedKeys == {"start_datetime", "created", "end_datetime"}

\* a constructor that copies the properties argument whole
Dataset_unfiltered(name, collection_id, start_time, end_time, creation_time, properties) ==
    [id |-> name,
     collection_id |-> collection_id,
     datafiles |-> <<>>,
     data_begin_time |-> start_time,
     data_end_time |-> end_time,
     data_create_time |-> creation_time,
     properties |-> properties,
     geometry |-> None,
     bbox |-> None]

\* Dataset.__init__: the properties argument is copied without the reserved keys
Dataset(name, collection_id, start_time, end_time, creation_time, properties) ==
    [id |-> name,
     collection_id |-> collection_id,
     datafiles |-> <<>>,
     data_begin_time |-> start_time,
     data_end_time |-> end_time,
     data_create_time |-> creation_time,
     properties |-> [k \in DOMAIN properties \ ReservedKeys |-> properties[k]],
     geometry |-> None,
     bbox |-> None]

\* an add_data_file that skips a datafile the dataset already holds
add_data_file_once(dataset, datafile) ==
    IF datafile \in Range(dataset.datafiles) THEN dataset
    ELSE [dataset EXCEPT !.datafiles = Append(@, datafile)]

\* Dataset.add_data_file
add_data_file(dataset, datafile) ==
    [dataset EXCEPT !.datafiles = Append(@, datafile)]

\* Collection.__init__
Collection(id) == [collection_id |-> id, datasets |-> <<>>]

\* Dataset.add_property
add_property(dataset, key, value) ==
    [dataset EXCEPT !.properties = DictUpdate(@, [k \in {key} |-> value])]

\* an add_dataset that puts the new dataset in front
add_dataset_first(c, dataset) == [c EXCEPT !.datasets = <<dataset>> \o @]

\* Collection.add_dataset
add_dataset(c, dataset) == [c EXCEPT !.datasets = Append(@, dataset)]

\* a filter that keeps a file only when all of its roles are asked for
RolesSubset(file, roles) == Range(file.roles) \subseteq Range(roles)

\* set(file.roles).intersection(set(roles)), taken as a truth value
RolesIntersect(file, roles) == Range(file.roles) \cap Range(roles) # {}

\* [file for file in files if <kept>] over one dataset's datafiles
RECURSIVE FilesOf(_, _)
FilesOf(files, roles) ==
    IF files = <<>> THEN <<>>
    ELSE (IF Len(roles) = 0 \/ RolesIntersect(files[1], roles) THEN <<files[1]>> ELSE <<>>)
         \o FilesOf(Tail(files), roles)

\* Collection.data_files(roles)
RECURSIVE DataFilesOver(_, _)
DataFilesOver(datasets, roles) ==
    IF datasets = <<>> THEN <<>>
    ELSE FilesOf(datasets[1].datafiles, roles) \o DataFilesOver(Tail(datasets), roles)

data_files(c, roles) == DataFilesOver(c.datasets, roles)

\* [file.location for file in files if <kept>] over one dataset's datafiles
RECURSIVE LocationsOf(_, _)
LocationsOf(files, roles) ==
    IF files = <<>> THEN <<>>
    ELSE (IF Len(roles) = 0 \/ RolesIntersect(files[1], roles)
          THEN <<files[1].location>> ELSE <<>>)
         \o LocationsOf(Tail(files), roles)

\* Collection.data_locations(roles)
RECURSIVE DataLocationsOver(_, _)
DataLocationsOver(datasets, roles) ==
    IF datasets = <<>> THEN <<>>
    ELSE LocationsOf(datasets[1].datafiles, roles) \o DataLocationsOver(Tail(datasets), roles)

\* a data_locations that ignores its filter
data_locations_unfiltered(c, roles) == DataLocationsOver(c.datasets, <<>>)

data_locations(c, roles) == DataLocationsOver(c.datasets, roles)

\* the role filters the callers pass (the empty one is the default argument)
RoleFilters ==
    { <<>>, <<"data">>, <<"metadata">>, <<"opendap">>, <<"data", "opendap">> }

(***************************************************************************)
(* STAC documents on disk.  The file system maps a path to the document   *)
(* stored there:                                                           *)
(*   [kind |-> "catalog", id, links]      a Catalog and its item links     *)
(*   [kind |-> "item", id, collection, properties, assets, ...]  an Item   *)
(*   [kind |-> "itemcollection", features] a GeoJSON FeatureCollection     *)
(*   [kind |-> "corrupt"]                  bytes that are not JSON         *)
(*   [kind |-> "unreadable"]               a file that cannot be opened    *)
(*   [kind |-> "other"]                    JSON that is no STAC object     *)
(*   [kind |-> "baditem"]                  an Item whose asset has no href *)
(* An item's assets are a dict in key insertion order: a sequence of       *)
(* [key, href, title, description, media_type, roles] with distinct keys;  *)
(* the roles field is missing when the asset has no role list.             *)
(* The asset keys "data" and "metadata" are written as one token, and so   *)
(* is a role.                                                              *)
(***************************************************************************)

\* a classification by the scheme name without its colon
is_uri_without_colon(path) ==
    \/ StartsWith(path, <<"h", "t", "t", "p">>)
    \/ StartsWith(path, <<"s", "3">>)

\* Collection.is_uri
is_uri(path) ==
    \/ StartsWith(path, <<"h", "t", "t", "p", ":">>)
    \/ StartsWith(path, <<"h", "t", "t", "p", "s", ":">>)
    \/ StartsWith(path, <<"s", "3", ":">>)

\* the timestamps dateutil's parser accepts
Parseable(t) == t \in {T1, T2, T3}

\* date_parser.parse(t) for a t it does not accept: TypeError for None, its
\* ParserError for a string
ParseError(t) == IF t = None THEN "TypeError" ELSE "ParserError"

\* the Item's datetime as it is written: date_parser.parse(data_begin_time), a time
\* without zone taken as UTC, in the ISO 8601 form with Z
DatetimeToStr(t) == IF t = T3 THEN T1 ELSE t

\* datetime.now(timezone.utc).isoformat().replace('+00:00', 'Z')
Now == "2026-01-01T00:00:00Z"

\* to_stac: item_location of a datafile
ItemLocation(location, data_dir) ==
    IF is_uri(location) THEN location ELSE Replace(location, data_dir, <<".">>)

\* an asset key that is the item_location as it stands
AssetKey_item_location(item_location) == item_location

\* to_stac: the asset key of an item_location
AssetKey(item_location) ==
    IF StartsWith(item_location, <<".", "/">>) THEN Basename(item_location)
    ELSE item_location

\* an asset written without the roles of its datafile
StacAsset_without_roles(df, data_dir) ==
    [key |-> AssetKey(ItemLocation(df.location, data_dir)),
     href |-> ItemLocation(df.location, data_dir),
     title |-> df.type \o " file",
     description |-> "",
     media_type |-> None,
     roles |-> <<>>]

\* to_stac: Asset(href, title, description, roles) under its key
StacAsset(df, data_dir) ==
    [key |-> AssetKey(ItemLocation(df.location, data_dir)),
     href |-> ItemLocation(df.location, data_dir),
     title |-> df.type \o " file",
     description |-> "",
     media_type |-> None,
     roles |-> df.roles]

\* an asset list that keeps the first asset of a key
AddAsset_keep_first(assets, asset) ==
    IF \E i \in 1..Len(assets) : assets[i].key = asset.key
    THEN assets
    ELSE Append(assets, asset)

\* item.add_asset(key, asset): self.assets[key] = asset
AddAsset(assets, asset) ==
    IF \E i \in 1..Len(assets) : assets[i].key = asset.key
    THEN [i \in 1..Len(assets) |-> IF assets[i].key = asset.key THEN asset ELSE assets[i]]
    ELSE Append(assets, asset)

\* to_stac: the loop over dataset.datafiles
RECURSIVE AddAssets(_, _, _)
AddAssets(assets, datafiles, data_dir) ==
    IF datafiles = <<>> THEN assets
    ELSE AddAssets(AddAsset(assets, StacAsset(datafiles[1], data_dir)),
                   Tail(datafiles), data_dir)

\* the properties of an Item without those of the dataset
ItemProperties_base_only(dataset) ==
    [k \in {"datetime", "start_datetime", "end_datetime", "created", "updated"} |->
        CASE k = "datetime" -> dataset.data_begin_time
          [] k = "start_datetime" -> dataset.data_begin_time
          [] k = "end_datetime" -> dataset.data_end_time
          [] k = "created" -> IF dataset.data_create_time # None
                              THEN dataset.data_create_time ELSE Now
          [] OTHER -> Now]

\* properties in which the base values win over those of the dataset
ItemProperties_base_wins(dataset) ==
    DictUpdate(
        dataset.properties,
        [k \in {"datetime", "start_datetime", "end_datetime", "created", "updated"} |->
            CASE k = "datetime" -> dataset.data_begin_time
              [] k = "start_datetime" -> dataset.data_begin_time
              [] k = "end_datetime" -> dataset.data_end_time
              [] k = "created" -> IF dataset.data_create_time # None
                                  THEN dataset.data_create_time ELSE Now
              [] OTHER -> Now])

\* to_stac: the properties of an Item, the dataset's own laid over the base ones
ItemProperties(dataset) ==
    DictUpdate(
        [k \in {"datetime", "start_datetime", "end_datetime", "created", "updated"} |->
            CASE k = "datetime" -> dataset.data_begin_time
              [] k = "start_datetime" -> dataset.data_begin_time
              [] k = "end_datetime" -> dataset.data_end_time
              [] k = "created" -> IF dataset.data_create_time # None
                                  THEN dataset.data_create_time ELSE Now
              [] OTHER -> Now],
        dataset.properties)

\* an Item written without its collection
StacItem_without_collection(dataset, data_dir) ==
    [kind |-> "item",
     id |-> dataset.id,
     geometry |-> dataset.geometry,
     bbox |-> dataset.bbox,
     collection |-> None,
     properties |-> [ItemProperties(dataset) EXCEPT
                        !["datetime"] = DatetimeToStr(dataset.data_begin_time)],
     assets |-> AddAssets(<<>>, dataset.datafiles, data_dir)]

\* to_stac: the Item of a dataset and its assets, as it is saved; the Item is
\* built with datetime = the parsed data_begin_time, and the saved document
\* carries that datetime under the key "datetime" of its properties
StacItem(dataset, data_dir) ==
    [kind |-> "item",
     id |-> dataset.id,
     geometry |-> dataset.geometry,
     bbox |-> dataset.bbox,
     collection |-> dataset.collection_id,
     properties |-> [ItemProperties(dataset) EXCEPT
                        !["datetime"] = DatetimeToStr(dataset.data_begin_time)],
     assets |-> AddAssets(<<>>, dataset.datafiles, data_dir)]

\* the layout that gives every item a directory of its own: <root>/<id>/<id>.json
ItemPath_nested(root, id) == Join(Join(root, id), id \o <<".json">>)

\* TemplateLayoutStrategy(item_template=""): <root>/<item id>.json
ItemPath(root, id) == Join(root, id \o <<".json">>)

CatalogPath(root) == Join(root, <<"catalog.json">>)

\* the self-contained link of the catalog to an item file beside it
ItemLink(id) == <<".", "/">> \o id \o <<".json">>

\* catalog.save: every item file in catalog order, a later file replacing an
\* earlier one at the same path
RECURSIVE SaveItems(_, _, _, _)
SaveItems(files, datasets, data_dir, root) ==
    IF datasets = <<>> THEN files
    ELSE SaveItems(
            DictUpdate(files,
                       [p \in {ItemPath(root, datasets[1].id)} |->
                            StacItem(datasets[1], data_dir)]),
            Tail(datasets), data_dir, root)

\* a to_stac that saves each item as soon as it is converted
to_stac_saving_as_converted(c, dir) ==
    LET data_dir == RStrip(dir, "/")
        root == AbsPath(data_dir)
        catalog == [kind |-> "catalog",
                    id |-> c.collection_id,
                    links |-> [i \in 1..Len(c.datasets) |-> ItemLink(c.datasets[i].id)]]
        bad == {i \in 1..Len(c.datasets) : ~Parseable(c.datasets[i].data_begin_time)}
        first == CHOOSE i \in bad : \A k \in bad : i <= k
    IN  IF bad # {}
        THEN [raised |-> ParseError(c.datasets[first].data_begin_time),
              files |-> SaveItems(EmptyDict, SubSeq(c.datasets, 1, first - 1), data_dir, root)]
        ELSE [raised |-> None,
              files |-> DictUpdate(SaveItems(EmptyDict, c.datasets, data_dir, root),
                                   [p \in {CatalogPath(root)} |-> catalog])]

\* Collection.to_stac: the exception it raises (None: it returns) and the files it
\* writes.  The Items are built, and their timestamps parsed, before anything is saved.
to_stac(c, dir) ==
    LET data_dir == RStrip(dir, "/")
        root == AbsPath(data_dir)
        catalog == [kind |-> "catalog",
                    id |-> c.collection_id,
                    links |-> [i \in 1..Len(c.datasets) |-> ItemLink(c.datasets[i].id)]]
        bad == {i \in 1..Len(c.datasets) : ~Parseable(c.datasets[i].data_begin_time)}
        first == CHOOSE i \in bad : \A k \in bad : i <= k
    IN  IF bad # {}
        THEN [raised |-> ParseError(c.datasets[first].data_begin_time), files |-> EmptyDict]
        ELSE [raised |-> None,
              files |-> DictUpdate(SaveItems(EmptyDict, c.datasets, data_dir, root),
                                   [p \in {CatalogPath(root)} |-> catalog])]

(***************************************************************************)
(* Collection.from_stac.                                                   *)
(***************************************************************************)

\* reading one STAC object of the wanted kinds from a path: the exception
\* raised (None: none) and the document
ReadStac(files, path, kinds) ==
    IF path \notin DOMAIN files THEN [exc |-> "FileNotFoundError", doc |-> [kind |-> "none"]]
    ELSE IF files[path].kind = "unreadable"
         THEN [exc |-> "PermissionError", doc |-> files[path]]
    ELSE IF files[path].kind = "corrupt"
         THEN [exc |-> "JSONDecodeError", doc |-> files[path]]
    ELSE IF files[path].kind = "baditem" /\ "item" \in kinds
         THEN [exc |-> "KeyError", doc |-> files[path]]
    ELSE IF files[path].kind \notin kinds
         THEN [exc |-> "STACTypeError", doc |-> files[path]]
    ELSE [exc |-> None, doc |-> files[path]]

\* root_catalog.get_all_items(): each item link resolved against the catalog's
\* own location and read when the loop reaches it
CatalogItems(files, catalog_path, catalog) ==
    [i \in 1..Len(catalog.links) |->
        ReadStac(files, NormPath(Join(Dirname(catalog_path), catalog.links[i])), {"item"})]

\* ItemCollection.from_dict: every feature is parsed before the loop starts
ItemCollectionExc(data) ==
    IF data.kind # "itemcollection" THEN "STACTypeError"
    ELSE IF \E i \in 1..Len(data.features) : data.features[i].kind # "item" THEN "KeyError"
    ELSE None

\* the collection of the first feature that declares one
FirstDeclaredCollection(data) ==
    LET declared == {i \in 1..Len(data.features) : data.features[i].collection # None}
    IN  IF declared = {} THEN None
        ELSE data.features[CHOOSE i \in declared : \A j \in declared : i <= j].collection

\* id = data['features'][0]['collection'], None when that lookup raises
FirstFeatureCollection(data) ==
    IF Len(data.features) > 0 /\ data.features[1].collection # None
    THEN data.features[1].collection
    ELSE None

\* a location that appends the href to the directory without a separator
AssetLocation_concatenated(href, stac_dir) ==
    IF is_uri(href) THEN href
    ELSE IF IsAbs(href) THEN href
    ELSE stac_dir \o href

\* from_stac: the location of an asset, its href resolved beside the STAC file
AssetLocation(href, stac_dir) ==
    IF is_uri(href) THEN href
    ELSE IF IsAbs(href) THEN href
    ELSE Join(stac_dir, href)

\* roles that default to the asset key whatever the key is
AssetRoles_any_key(asset) ==
    LET asset_roles == IF "roles" \in DOMAIN asset THEN asset.roles ELSE <<>>
    IN  IF Len(asset_roles) = 0 THEN <<asset.key[1]>> ELSE asset_roles

\* from_stac: the roles of one asset; an asset without a role list is a record
\* without the roles field
AssetRoles(asset) ==
    LET asset_roles == IF "roles" \in DOMAIN asset THEN asset.roles ELSE <<>>
    IN  IF Len(asset_roles) = 0 /\ asset.key \in {<<"data">>, <<"metadata">>}
        THEN <<asset.key[1]>> ELSE asset_roles

\* from_stac: the DataFile of one asset
AssetDataFile(asset, stac_dir) ==
    LET asset_type == IF asset.media_type # None THEN asset.media_type ELSE ""
        asset_roles == AssetRoles(asset)
        asset_title == IF asset.title # None THEN asset.title ELSE ""
        asset_description == IF asset.description # None THEN asset.description ELSE ""
    IN  DataFile(asset_type, AssetLocation(asset.href, stac_dir), asset_roles,
                 asset_title, asset_description)

\* a Dataset that always takes the detected collection id
ItemCollectionId_detected(item, id) == id

\* from_stac: the collection id of the Dataset of one item
ItemCollectionId(item, id) ==
    IF item.collection # None /\ item.collection # id THEN item.collection ELSE id

\* the DataFiles of the assets that have a role
RECURSIVE ItemDataFiles_with_roles(_, _)
ItemDataFiles_with_roles(assets, stac_dir) ==
    IF assets = <<>> THEN <<>>
    ELSE (IF AssetDataFile(assets[1], stac_dir).roles # <<>>
          THEN <<AssetDataFile(assets[1], stac_dir)>> ELSE <<>>)
         \o ItemDataFiles_with_roles(Tail(assets), stac_dir)

\* from_stac: the loop over item.assets, one add_data_file per asset key
ItemDataFiles(assets, stac_dir) ==
    [j \in 1..Len(assets) |-> AssetDataFile(assets[j], stac_dir)]

\* from_stac: the Dataset of one item
ItemDataset(item, id, stac_dir) ==
    LET ds == Dataset(item.id, ItemCollectionId(item, id),
                      DictGet(item.properties, "start_datetime"),
                      DictGet(item.properties, "end_datetime"),
                      DictGet(item.properties, "created"), EmptyDict)
    IN  [ds EXCEPT !.bbox = item.bbox,
                   !.geometry = item.geometry,
                   !.properties = DictUpdate(@, item.properties),
                   !.datafiles = ItemDataFiles(item.assets, stac_dir)]

\* from_stac: the loop over the items; it stops at the first item that cannot be
\* read, with the datasets converted so far in the collection
RECURSIVE ConvertItems(_, _, _, _)
ConvertItems(c, items, id, stac_dir) ==
    IF items = <<>> THEN [exc |-> None, collection |-> c]
    ELSE IF items[1].exc # None THEN [exc |-> items[1].exc, collection |-> c]
    ELSE ConvertItems(add_dataset(c, ItemDataset(items[1].doc, id, stac_dir)),
                      Tail(items), id, stac_dir)

\* a directory of the STAC file that is left as the caller wrote it
StacDir_as_given(stac_file) == Dirname(stac_file)

\* from_stac: stac_dir, the absolute directory of the STAC file
StacDir(stac_file) == AbsPath(Dirname(stac_file))

\* a reader that falls back to the item collection on any failure of the catalog
FallsBack_on_any(exc) == exc # None

\* from_stac: the failure of Catalog.from_file that is passed over (except
\* STACTypeError: pass), so that the file is read as an ItemCollection
FallsBack(exc) == exc = "STACTypeError"

\* from_stac: the body of the outer try; attempts lists the parsers it tried
FromStacBody(files, stac_file) ==
    LET stac_dir == StacDir(stac_file)
        path == AbsPath(stac_file)
        root == ReadStac(files, path, {"catalog"})
        base == [exc |-> None, collection |-> Collection(None), mode |-> "none",
                 doc |-> root.doc, items |-> <<>>, attempts |-> <<"catalog">>]
        both == <<"catalog", "itemcollection">>
    IN  IF root.exc = None
        THEN LET items == CatalogItems(files, path, root.doc)
                 done == ConvertItems(Collection(root.doc.id), items, root.doc.id, stac_dir)
             IN  [base EXCEPT !.exc = done.exc, !.collection = done.collection,
                              !.mode = "catalog", !.items = items]
        ELSE IF ~FallsBack(root.exc)
        THEN [base EXCEPT !.exc = root.exc]
        ELSE IF ItemCollectionExc(root.doc) # None
        THEN [base EXCEPT !.exc = ItemCollectionExc(root.doc), !.attempts = both]
        ELSE LET id == FirstFeatureCollection(root.doc)
                 items == [i \in 1..Len(root.doc.features) |->
                              [exc |-> None, doc |-> root.doc.features[i]]]
                 done == ConvertItems(Collection(id), items, id, stac_dir)
             IN  [base EXCEPT !.exc = done.exc, !.collection = done.collection,
                              !.mode = "itemcollection", !.items = items,
                              !.attempts = both]

\* the except clauses without the final bare except
HandleException_named_only(exc) ==
    IF exc \in {"FileNotFoundError", "STACTypeError", "JSONDecodeError"}
    THEN "UnityException" ELSE exc

\* from_stac: the except clauses of the outer try
HandleException(exc) ==
    CASE exc = "FileNotFoundError" -> "UnityException"
      [] exc = "STACTypeError" -> "UnityException"
      [] exc = "JSONDecodeError" -> "UnityException"
      [] OTHER -> "UnityException"

\* a from_stac that hands back the collection built so far when it fails
from_stac_returning_partial(files, stac_file) ==
    LET body == FromStacBody(files, stac_file)
    IN  [raised |-> IF body.exc # None THEN HandleException(body.exc) ELSE None,
         cause |-> body.exc,
         returned |-> <<body.collection>>,
         mode |-> body.mode,
         doc |-> body.doc,
         items |-> body.items,
         attempts |-> body.attempts]

\* Collection.from_stac: what the caller gets, the exception raised (None: none)
\* and the values returned, with the documents the call read
from_stac(files, stac_file) ==
    LET body == FromStacBody(files, stac_file)
    IN  [raised |-> IF body.exc # None THEN HandleException(body.exc) ELSE None,
         cause |-> body.exc,
         returned |-> IF body.exc # None THEN <<>> ELSE <<body.collection>>,
         mode |-> body.mode,
         doc |-> body.doc,
         items |-> body.items,
         attempts |-> body.attempts]

(***************************************************************************)
(* UnitySession, Unity.client and DataService.create_collection.  A        *)
(* session is [project, venue, venue_id, token, token_expiration], the last *)
(* two being those of its UnityAuth.  Project, venue and                   *)
(* venue_id are strings; a collection id handed to the data service is a    *)
(* sequence of tokens, so that its beginning can be compared with           *)
(* "urn:nasa:unity:", the project, ":" and the venue, and NoneId is None    *)
(* in that position.  http lists the endpoints a call sent a request to.   *)
(***************************************************************************)
NoneId == <<None>>

\* a get_venue_id that looks at project and venue before venue_id
get_venue_id_project_first(session) ==
    IF session.project # None /\ session.venue # None
    THEN [raised |-> None, returned |-> session.project \o "/" \o session.venue]
    ELSE IF session.venue_id # None
         THEN [raised |-> None, returned |-> session.venue_id]
    ELSE [raised |-> "UnityException", returned |-> None]

\* UnitySession.get_venue_id
get_venue_id(session) ==
    IF session.venue_id = None
    THEN IF session.project = None \/ session.venue = None
         THEN [raised |-> "UnityException", returned |-> None]
         ELSE [raised |-> None, returned |-> session.project \o "/" \o session.venue]
    ELSE [raised |-> None, returned |-> session.venue_id]

\* an expiration check that finds every token expired
is_expired_always(expiration_date) == TRUE

\* UnityAuth._is_expired
is_expired(expiration_date) == IF expiration_date = None THEN TRUE ELSE FALSE

\* UnityAuth._get_unity_token: one request to the auth endpoint; answer is the
\* AccessToken of the response, None for a request or a response that fails, and
\* the failure is swallowed and leaves the token as it was
get_unity_token(session, answer) ==
    IF answer # None
    THEN [token |-> answer, token_expiration |-> answer, http |-> <<"auth">>]
    ELSE [token |-> session.token, token_expiration |-> session.token_expiration,
          http |-> <<"auth">>]

\* UnityAuth.get_token: the token held, or the one _get_unity_token leaves
get_token(session, answer) ==
    IF session.token = None \/ is_expired(session.token_expiration)
    THEN get_unity_token(session, answer)
    ELSE [token |-> session.token, token_expiration |-> session.token_expiration,
          http |-> <<>>]

\* the AccessToken a service call is answered with when the auth endpoint accepts it
Answer(auth_ok) == IF auth_ok THEN "token" ELSE None

\* the token and the expiration a session holds
Held(session) == [token |-> session.token, token_expiration |-> session.token_expiration]

\* Unity.client(service_name): the service object, or the exception of its constructor
client(session, service_name) ==
    CASE service_name = "DATA_SERVICE" -> [raised |-> None, returned |-> "DataService"]
      [] service_name = "HEALTH_SERVICE" -> [raised |-> None, returned |-> "HealthService"]
      [] service_name = "PROCESS_SERVICE" ->
            [raised |-> get_venue_id(session).raised,
             returned |-> IF get_venue_id(session).raised = None
                          THEN "ProcessService" ELSE None]
      [] OTHER -> [raised |-> "UnityException", returned |-> None]

\* f"urn:nasa:unity:{project}:{venue}"
CollectionPrefix(session) == <<"urn:nasa:unity:", session.project, ":", session.venue>>

\* DataService.create_collection(collection, dry_run): collection is <<>> for None
\* and <<c>> for a Collection; auth_ok and status are what the auth endpoint and the
\* collections endpoint answer if they are asked
create_collection(session, collection, dry_run, auth_ok, status) ==
    LET done(raised, http, auth) == [raised |-> raised, http |-> http, auth |-> auth]
        got == get_token(session, Answer(auth_ok))
    IN  IF collection = <<>> THEN done("UnityException", <<>>, Held(session))
        ELSE IF session.project = None \/ session.venue = None
             THEN done("UnityException", <<>>, Held(session))
        ELSE IF collection[1].collection_id = NoneId
             THEN done("AttributeError", <<>>, Held(session))
        ELSE IF ~StartsWith(collection[1].collection_id, CollectionPrefix(session))
             THEN done("UnityException", <<>>, Held(session))
        ELSE IF dry_run THEN done(None, <<>>, Held(session))
        ELSE IF got.token = None THEN done("TypeError", got.http, got)
        ELSE IF status = 202 THEN done(None, got.http \o <<"collections">>, got)
        ELSE done("AttributeError", got.http \o <<"collections">>, got)

\* get_collection_data: the roles of one asset of the response; an asset without a
\* role list is a record without the roles field
ServiceAssetRoles(asset) ==
    IF "roles" \in DOMAIN asset THEN asset.roles
    ELSE IF asset.key \in {<<"metadata__cmr">>, <<"metadata__data">>} THEN <<"metadata">>
    ELSE <<asset.key[1]>>

\* get_collection_data: the DataFile of one asset of the response
ServiceDataFile(asset) ==
    DataFile(IF asset.media_type # None THEN asset.media_type ELSE "",
             asset.href,
             ServiceAssetRoles(asset),
             IF asset.title # None THEN asset.title ELSE "",
             IF asset.description # None THEN asset.description ELSE "")

\* get_collection_data: the Dataset of one feature of the response
ServiceDataset(feature, collection_id) ==
    LET ds == Dataset(feature.id, collection_id,
                      feature.properties["start_datetime"],
                      feature.properties["end_datetime"],
                      feature.properties["created"],
                      feature.properties)
    IN  [ds EXCEPT !.datafiles = [j \in 1..Len(feature.assets) |->
                                     ServiceDataFile(feature.assets[j])]]

\* DataService.get_collection_data(collection, output_stac): collection is <<>> for
\* None and <<c>> for a Collection; auth_ok and features are what the auth endpoint
\* and the items endpoint answer if they are asked.  returned is the list of
\* Datasets, stac the response handed back when output_stac is set.
get_collection_data(session, collection, output_stac, auth_ok, features) ==
    LET done(raised, http, auth, returned, stac) ==
            [raised |-> raised, http |-> http, auth |-> auth,
             returned |-> returned, stac |-> stac]
        got == get_token(session, Answer(auth_ok))
        keys == {"start_datetime", "end_datetime", "created"}
    IN  IF collection = <<>> THEN done("AttributeError", <<>>, Held(session), <<>>, <<>>)
        ELSE IF got.token = None THEN done("TypeError", got.http, got, <<>>, <<>>)
        ELSE IF output_stac THEN done(None, got.http \o <<"items">>, got, <<>>, features)
        ELSE IF \E i \in 1..Len(features) : ~(keys \subseteq DOMAIN features[i].properties)
             THEN done("KeyError", got.http \o <<"items">>, got, <<>>, <<>>)
        ELSE done(None, got.http \o <<"items">>, got,
                  [i \in 1..Len(features) |->
                      ServiceDataset(features[i], collection[1].collection_id)],
                  <<>>)

(***************************************************************************)
(* The STAC files staged in beside the program: the inputs of from_stac   *)
(* that to_stac did not write.                                             *)
(***************************************************************************)
MaxFeatures == 2

StagedAsset(key, href, roles, media_type) ==
    [key |-> key, href |-> href, title |-> None, description |-> None,
     media_type |-> media_type, roles |-> roles]

StagedItem(id, collection, assets) ==
    [kind |-> "item", id |-> id, geometry |-> None, bbox |-> None,
     collection |-> collection,
     properties |-> [k \in {"datetime", "start_datetime"} |-> T1],
     assets |-> assets]

\* an asset whose JSON has no role list
BareAsset(key, href, media_type) ==
    [key |-> key, href |-> href, title |-> None, description |-> None,
     media_type |-> media_type]

\* a granule with data, opendap and metadata assets, as a CMR search returns it
Granule(id, collection) ==
    StagedItem(id, collection,
        << StagedAsset(<<"data">>, <<"h", "t", "t", "p", "s", ":", "f">>, <<"data">>, None),
           BareAsset(<<"opendap">>, <<"h", "t", "t", "p", ":", "o">>, None),
           StagedAsset(<<"metadata">>, <<"f", ".", "x">>, <<>>, "xml") >>)

\* an item with one bare data asset at an absolute path
Plain(id, collection) ==
    StagedItem(id, collection,
        << BareAsset(<<"data">>, <<"/", "e", "/", "g">>, "nc") >>)

\* the features of a staged ItemCollection; the last one has an asset without href
Features ==
    { Granule(<<"g">>, "c1"), Granule(<<"h">>, None), Plain(<<"k">>, "c2"),
      Plain(<<"m">>, None), [kind |-> "baditem"] }

\* the item links of a staged Catalog: two item files exist, the third does not
Links == { <<".", "/", "i">>, <<".", "/", "j">>, <<".", "/", "gone">> }

SeqsUpTo(S, n) == UNION {[1..k -> S] : k \in 0..n}

\* the documents a stage-in step may leave at the staged path
StagedDocs ==
    {[kind |-> "itemcollection", features |-> f] : f \in SeqsUpTo(Features, MaxFeatures)}
    \cup {[kind |-> "catalog", id |-> "c1", links |-> l] : l \in SeqsUpTo(Links, MaxFeatures)}
    \cup {[kind |-> "corrupt"], [kind |-> "other"], [kind |-> "unreadable"]}

StagedPath(name) == <<"/", "s", "/", name>>

\* the item files that are on disk from the start
StagedFiles ==
    [p \in {StagedPath("i"), StagedPath("j")} |->
        IF p = StagedPath("i") THEN Granule(<<"i">>, "c2") ELSE Plain(<<"j">>, None)]

\* the directories handed to to_stac: absolute, with a dangling "/", relative
Dirs == { <<"/", "d">>, <<"/", "d", "/">>, <<"d">> }

\* the paths handed to from_stac
StacFiles ==
    { <<"/", "d", "/", "catalog.json">>, <<"d", "/", "catalog.json">>, StagedPath("in") }

(***************************************************************************)
(* The state: the Collection the caller builds, the file system, and what *)
(* the last to_stac, from_stac and query calls were given and gave back.  *)
(* A run builds a collection and then hands it off: once to_stac,          *)
(* from_stac or a query has been called, the collection is not extended.   *)
(***************************************************************************)
VARIABLES collection, fs, written, parsed, queried

\* The callers of the other parts of the client have their own state: the path
\* handed to is_uri, a Dataset under construction with the add_data_file calls made
\* on it, and the session with the outcome of the last service request.
VARIABLES probe, dataset, added, session, service

\* Dataset objects and the Collections that hold references to them: objects[h] is
\* the Dataset with the handle h, and the datasets of refs.collections[n] are
\* handles.
VARIABLES refs

resourceVars == <<collection, fs, written, parsed, queried>>

datasetVars == <<dataset, added>>

sessionVars == <<session, service>>

clientVars == <<probe, datasetVars, sessionVars, refs>>

vars == <<resourceVars, clientVars>>

NoCollection == Collection(None)

\* UnitySession.__init__: no project, venue or venue_id, and UnityAuth without a token
NewSession ==
    [project |-> None, venue |-> None, venue_id |-> None,
     token |-> None, token_expiration |-> None]

\* no service has been asked for anything yet; a request is kept with the session
\* as it was when the request was made
NoRequest ==
    [op |-> "none", session |-> NewSession,
     name |-> None, collection |-> <<>>, dry_run |-> FALSE,
     raised |-> None, returned |-> None, http |-> <<>>,
     output_stac |-> FALSE, features |-> <<>>, datasets |-> <<>>, stac |-> <<>>]

Init ==
    /\ collection \in {Collection(id) : id \in CollectionIds}
    /\ fs = StagedFiles
    /\ written = [status |-> "none", dir |-> <<>>, collection |-> NoCollection]
    /\ parsed = [called |-> FALSE, file |-> <<>>, of |-> <<>>,
                 result |-> [raised |-> None, cause |-> None, returned |-> <<>>,
                             mode |-> "none", doc |-> [kind |-> "none"], items |-> <<>>,
                             attempts |-> <<>>]]
    /\ queried = [op |-> "none", roles |-> <<>>, result |-> <<>>]
    /\ probe = [path |-> <<>>, parts |-> 0, called |-> FALSE, uri |-> FALSE,
                item_location |-> <<>>, location |-> <<>>]
    /\ dataset = Dataset(<<"a">>, "c1", T1, T2, None, EmptyDict)
    /\ added = <<>>
    /\ session = NewSession
    /\ service = NoRequest
    /\ refs = [objects |-> <<>>, collections |-> [n \in CollectionIds |-> Collection(n)]]

TotalFiles(c) == Len(data_files(c, <<>>))

Building == written.status = "none" /\ ~parsed.called /\ queried.op = "none"

\* collection.add_dataset(Dataset(...))
NewDataset(args) ==
    /\ Building
    /\ Len(collection.datasets) < MaxDatasets
    /\ collection' = add_dataset(collection,
                        Dataset(args.name, args.collection_id, args.start_time,
                                T2, args.creation_time, EmptyDict))
    /\ UNCHANGED <<fs, written, parsed, queried>>
    /\ UNCHANGED clientVars

\* dataset.add_data_file(df) on a dataset of the collection
AddDataFile(i, df) ==
    /\ Building
    /\ i \in 1..Len(collection.datasets)
    /\ TotalFiles(collection) < MaxFiles
    /\ collection' = [collection EXCEPT !.datasets[i] = add_data_file(@, df)]
    /\ UNCHANGED <<fs, written, parsed, queried>>
    /\ UNCHANGED clientVars

\* Collection.to_stac(collection, dir)
ToStac(dir) ==
    LET r == to_stac(collection, dir)
    IN  /\ ~parsed.called
        /\ fs' = DictUpdate(fs, r.files)
        /\ written' = [status |-> IF r.raised = None THEN "ok" ELSE r.raised, dir |-> dir]
        /\ UNCHANGED <<collection, parsed, queried>>
        /\ UNCHANGED clientVars

\* a stage-in step leaves a STAC document at the staged path
StageIn(doc) ==
    /\ ~parsed.called
    /\ fs' = DictUpdate(fs, [p \in {StagedPath("in")} |-> doc])
    /\ UNCHANGED <<collection, written, parsed, queried>>
    /\ UNCHANGED clientVars

\* the catalog file that the last to_stac call wrote, if it wrote one
WrittenCatalog ==
    IF written.status = "ok" THEN {CatalogPath(AbsPath(RStrip(written.dir, "/")))} ELSE {}

\* Collection.from_stac(file)
FromStac(file) ==
    /\ parsed' = [called |-> TRUE, file |-> file,
                  of |-> IF AbsPath(file) \in WrittenCatalog THEN <<written.dir>> ELSE <<>>,
                  result |-> from_stac(fs, file)]
    /\ UNCHANGED <<collection, fs, written, queried>>
    /\ UNCHANGED clientVars

\* collection.data_files(roles)
DataFilesCall(roles) ==
    /\ queried' = [op |-> "data_files", roles |-> roles,
                   result |-> data_files(collection, roles)]
    /\ UNCHANGED <<collection, fs, written, parsed>>
    /\ UNCHANGED clientVars

\* collection.data_locations(roles)
DataLocationsCall(roles) ==
    /\ queried' = [op |-> "data_locations", roles |-> roles,
                   result |-> data_locations(collection, roles)]
    /\ UNCHANGED <<collection, fs, written, parsed>>
    /\ UNCHANGED clientVars

Build ==
    \/ \E args \in DatasetArgs : NewDataset(args)
    \/ \E i \in 1..MaxDatasets, df \in DataFiles : AddDataFile(i, df)

\* building a collection, writing it with to_stac and reading it back
Next ==
    \/ Build
    \/ \E dir \in Dirs : ToStac(dir)
    \/ \E file \in StacFiles : FromStac(file)

Spec == Init /\ [][Next]_vars

\* reading the documents a stage-in left
NextRead ==
    \/ \E doc \in StagedDocs : StageIn(doc)
    \/ \E file \in StacFiles : FromStac(file)

SpecRead == Init /\ [][NextRead]_vars

\* building a collection and querying it
NextQuery ==
    \/ Build
    \/ \E roles \in RoleFilters : DataFilesCall(roles)
    \/ \E roles \in RoleFilters : DataLocationsCall(roles)

SpecQuery == Init /\ [][NextQuery]_vars

(***************************************************************************)
(* A caller that keeps adding datasets to a collection while it queries    *)
(* it and writes it out.                                                   *)
(***************************************************************************)

\* collection.add_dataset(Dataset(...)) at any time
AddDataset(args) ==
    /\ Len(collection.datasets) < MaxDatasets
    /\ collection' = add_dataset(collection,
                        Dataset(args.name, args.collection_id, args.start_time,
                                T2, args.creation_time, EmptyDict))
    /\ UNCHANGED <<fs, written, parsed, queried>>
    /\ UNCHANGED clientVars

\* the role filters and the directory this caller uses
OpsRoles == { <<>>, <<"data">> }

OpsDir == <<"/", "d">>

NextOps ==
    \/ \E args \in DatasetArgs : AddDataset(args)
    \/ \E i \in 1..MaxDatasets, df \in DataFiles : AddDataFile(i, df)
    \/ \E roles \in OpsRoles : DataFilesCall(roles)
    \/ \E roles \in OpsRoles : DataLocationsCall(roles)
    \/ ToStac(OpsDir)

SpecOps == Init /\ [][NextOps]_vars

(***************************************************************************)
(* A caller that adds properties to the datasets of a collection, writes   *)
(* the collection and reads it back.                                       *)
(***************************************************************************)
MaxProps == 2

\* the keys and values handed to add_property: a key of the caller's own and a
\* key that to_stac also writes
PropertyKeys == { "percent_cloud_cover", "datetime", "created" }

PropertyValues == { "0.01" }

\* the number of properties on the datasets of c
TotalProps(c) ==
    Cardinality(UNION {{<<i, k>> : k \in DOMAIN c.datasets[i].properties} :
                          i \in 1..Len(c.datasets)})

\* dataset.add_property(key, value) on a dataset of the collection
AddProperty(i, key, value) ==
    /\ Building
    /\ i \in 1..Len(collection.datasets)
    /\ TotalProps(collection) < MaxProps
    /\ collection' = [collection EXCEPT !.datasets[i] = add_property(@, key, value)]
    /\ UNCHANGED <<fs, written, parsed, queried>>
    /\ UNCHANGED clientVars

NextProps ==
    \/ \E args \in DatasetArgs : NewDataset(args)
    \/ \E i \in 1..MaxDatasets, key \in PropertyKeys, value \in PropertyValues :
          AddProperty(i, key, value)
    \/ \E dir \in Dirs : ToStac(dir)
    \/ \E file \in StacFiles : FromStac(file)

SpecProps == Init /\ [][NextProps]_vars

(***************************************************************************)
(* A caller that constructs a Dataset and adds datafiles to it; added is   *)
(* the list of the add_data_file calls made on the Dataset so far.         *)
(***************************************************************************)
MaxCalls == 3

\* the datafiles the caller adds: the same type twice, the same location twice
AddedFiles ==
    DataFiles \cup { DataFile("data", <<".", "/", "f">>, <<>>, "", "") }

\* the properties arguments of the constructor: none, and the properties of a
\* STAC item as the data service returns them
PropertyArgs ==
    { EmptyDict,
      [k \in {"start_datetime", "end_datetime", "created", "percent_cloud_cover"} |->
          CASE k = "start_datetime" -> T1
            [] k = "end_datetime" -> T2
            [] k = "created" -> T4
            [] OTHER -> "0.01"] }

\* dataset = Dataset(name, collection_id, start_time, end_time, creation_time,
\*                   properties)
DatasetInit(args, properties) ==
    /\ dataset' = Dataset(args.name, args.collection_id, args.start_time,
                          T2, args.creation_time, properties)
    /\ added' = <<>>
    /\ UNCHANGED <<resourceVars, probe, sessionVars, refs>>

\* dataset.add_data_file(df)
DatasetAddDataFile(df) ==
    /\ Len(added) < MaxCalls
    /\ dataset' = add_data_file(dataset, df)
    /\ added' = Append(added, df)
    /\ UNCHANGED <<resourceVars, probe, sessionVars, refs>>

\* dataset.add_property(key, value)
DatasetAddProperty(key, value) ==
    /\ dataset' = add_property(dataset, key, value)
    /\ UNCHANGED <<resourceVars, probe, added, sessionVars, refs>>

NextDataset ==
    \/ \E args \in DatasetArgs, properties \in PropertyArgs : DatasetInit(args, properties)
    \/ \E df \in AddedFiles : DatasetAddDataFile(df)
    \/ \E key \in PropertyKeys, value \in PropertyValues : DatasetAddProperty(key, value)

SpecDataset == Init /\ [][NextDataset]_vars

(***************************************************************************)
(* A caller of is_uri: it writes a path part by part and then has it       *)
(* classified, as to_stac does with a DataFile location and from_stac with *)
(* an asset href.                                                          *)
(***************************************************************************)
MaxParts == 4

\* the parts a path is written from
PathParts ==
    { <<"h", "t", "t", "p">>, <<"s">>, <<"3">>, <<":">>, <<"/">>, <<"f">> }

\* the directory the classified path is rewritten against
ProbeDir == <<"/", "s">>

\* the caller adds a part to the path
ExtendPath(part) ==
    /\ ~probe.called
    /\ probe.parts < MaxParts
    /\ probe' = [probe EXCEPT !.path = @ \o part, !.parts = @ + 1]
    /\ UNCHANGED <<resourceVars, datasetVars, sessionVars, refs>>

\* Collection.is_uri(path), and the rewriting that to_stac and from_stac decide with it
IsUri ==
    /\ ~probe.called
    /\ probe' = [probe EXCEPT !.called = TRUE,
                              !.uri = is_uri(probe.path),
                              !.item_location = ItemLocation(probe.path, ProbeDir),
                              !.location = AssetLocation(probe.path, ProbeDir)]
    /\ UNCHANGED <<resourceVars, datasetVars, sessionVars, refs>>

NextUri ==
    \/ \E part \in PathParts : ExtendPath(part)
    \/ IsUri

SpecUri == Init /\ [][NextUri]_vars

(***************************************************************************)
(* A caller that configures a session and asks for services.              *)
(***************************************************************************)
Projects == { "unity", "myproject" }

Venues == { "test" }

VenueIds == { "unity-sips-test" }

ServiceNames == { "APPLICATION_SERVICE", "DATA_SERVICE", "HEALTH_SERVICE", "PROCESS_SERVICE" }

\* the collections handed to create_collection: none, one without an id, and ids
\* that are the prefix of unity/test, go on after it, or belong elsewhere
ServiceCollections ==
    { <<>>,
      <<Collection(NoneId)>>,
      <<Collection(<<"urn:nasa:unity:", "unity", ":", "test">>)>>,
      <<Collection(<<"urn:nasa:unity:", "unity", ":", "test", ":", "my_collection_id">>)>>,
      <<Collection(<<"urn:nasa:unity:", "unity", ":", "test", "x">>)>>,
      <<Collection(<<"urn:nasa:unity:", "myproject", ":", "myvenue", ":", "identifier">>)>> }

\* the status codes the collections endpoint answers with
StatusCodes == { 202, 500 }

\* Unity.set_project
SetProject(project) ==
    /\ session' = [session EXCEPT !.project = project]
    /\ UNCHANGED <<resourceVars, probe, datasetVars, service, refs>>

\* Unity.set_venue
SetVenue(venue) ==
    /\ session' = [session EXCEPT !.venue = venue]
    /\ UNCHANGED <<resourceVars, probe, datasetVars, service, refs>>

\* Unity.set_venue_id
SetVenueId(venue_id) ==
    /\ session' = [session EXCEPT !.venue_id = venue_id]
    /\ UNCHANGED <<resourceVars, probe, datasetVars, service, refs>>

\* session.get_venue_id()
GetVenueId ==
    /\ service' = [NoRequest EXCEPT !.op = "get_venue_id",
                                    !.session = session,
                                    !.raised = get_venue_id(session).raised,
                                    !.returned = get_venue_id(session).returned]
    /\ UNCHANGED <<resourceVars, probe, datasetVars, session, refs>>

\* Unity.client(service_name)
Client(service_name) ==
    /\ service' = [NoRequest EXCEPT !.op = "client",
                                    !.session = session,
                                    !.name = service_name,
                                    !.raised = client(session, service_name).raised,
                                    !.returned = client(session, service_name).returned]
    /\ UNCHANGED <<resourceVars, probe, datasetVars, session, refs>>

\* Unity.client(DATA_SERVICE).create_collection(collection, dry_run)
CreateCollection(collection_arg, dry_run, auth_ok, status) ==
    LET r == create_collection(session, collection_arg, dry_run, auth_ok, status)
    IN  /\ service' = [NoRequest EXCEPT !.op = "create_collection",
                                        !.session = session,
                                        !.collection = collection_arg,
                                        !.dry_run = dry_run,
                                        !.raised = r.raised,
                                        !.http = r.http]
        /\ session' = [session EXCEPT !.token = r.auth.token,
                                      !.token_expiration = r.auth.token_expiration]
        /\ UNCHANGED <<resourceVars, probe, datasetVars, refs>>

\* a feature of the items endpoint: a STAC item with all its times
ServiceItem(id, assets) ==
    [kind |-> "item", id |-> id, geometry |-> None, bbox |-> None,
     collection |-> None,
     properties |-> [k \in {"datetime", "start_datetime", "end_datetime", "created", "updated"} |->
                        CASE k = "end_datetime" -> T2
                          [] k \in {"created", "updated"} -> T4
                          [] OTHER -> T1],
     assets |-> assets]

\* what the items endpoint answers: granules as the data service lists them, with
\* and without role lists, and a feature without the times of a Dataset
ServiceFeatures ==
    { ServiceItem(<<"g">>,
        << StagedAsset(<<"data">>, <<"s", "3", ":", "f">>, <<"data">>, None),
           BareAsset(<<"metadata__cmr">>, <<"s", "3", ":", "x">>, "xml"),
           BareAsset(<<"opendap">>, <<"h", "t", "t", "p", ":", "o">>, None) >>),
      ServiceItem(<<"h">>,
        << BareAsset(<<"data">>, <<"s", "3", ":", "g">>, "nc"),
           StagedAsset(<<"metadata">>, <<"s", "3", ":", "y">>, <<>>, "xml") >>),
      Plain(<<"k">>, None) }

\* Unity.client(DATA_SERVICE).get_collection_data(collection, output_stac=...)
GetCollectionData(collection_arg, output_stac, auth_ok, features) ==
    LET r == get_collection_data(session, collection_arg, output_stac, auth_ok, features)
    IN  /\ service' = [NoRequest EXCEPT !.op = "get_collection_data",
                                        !.session = session,
                                        !.collection = collection_arg,
                                        !.output_stac = output_stac,
                                        !.raised = r.raised,
                                        !.http = r.http,
                                        !.features = features,
                                        !.datasets = r.returned,
                                        !.stac = r.stac]
        /\ session' = [session EXCEPT !.token = r.auth.token,
                                      !.token_expiration = r.auth.token_expiration]
        /\ UNCHANGED <<resourceVars, probe, datasetVars, refs>>

NextSession ==
    \/ \E project \in Projects : SetProject(project)
    \/ \E venue \in Venues : SetVenue(venue)
    \/ \E venue_id \in VenueIds : SetVenueId(venue_id)
    \/ GetVenueId
    \/ \E service_name \in ServiceNames : Client(service_name)
    \/ \E collection_arg \in ServiceCollections, dry_run \in BOOLEAN,
          auth_ok \in BOOLEAN, status \in StatusCodes :
          CreateCollection(collection_arg, dry_run, auth_ok, status)

SpecSession == Init /\ [][NextSession]_vars

(***************************************************************************)
(* A caller that keeps Dataset objects and adds them to Collections.       *)
(***************************************************************************)
MaxObjects == 2

MaxAdds == 3

\* the add_dataset calls made so far
TotalAdds == Len(refs.collections["c1"].datasets) + Len(refs.collections["c2"].datasets)

\* ds = Dataset(...): a new object
NewObject(args) ==
    /\ Len(refs.objects) < MaxObjects
    /\ refs' = [refs EXCEPT !.objects =
                   Append(@, Dataset(args.name, args.collection_id, args.start_time,
                                     T2, args.creation_time, EmptyDict))]
    /\ UNCHANGED <<resourceVars, probe, datasetVars, sessionVars>>

\* c.add_dataset(ds) with an object the caller holds
AddObject(n, h) ==
    /\ h \in 1..Len(refs.objects)
    /\ TotalAdds < MaxAdds
    /\ refs' = [refs EXCEPT !.collections[n] = add_dataset(@, h)]
    /\ UNCHANGED <<resourceVars, probe, datasetVars, sessionVars>>

\* ds.add_data_file(df) on an object the caller holds
ObjectAddDataFile(h, df) ==
    /\ h \in 1..Len(refs.objects)
    /\ Len(refs.objects[h].datafiles) < 1
    /\ refs' = [refs EXCEPT !.objects[h] = add_data_file(@, df)]
    /\ UNCHANGED <<resourceVars, probe, datasetVars, sessionVars>>

NextOwner ==
    \/ \E args \in DatasetArgs : NewObject(args)
    \/ \E n \in CollectionIds, h \in 1..MaxObjects : AddObject(n, h)
    \/ \E h \in 1..MaxObjects, df \in DataFiles : ObjectAddDataFile(h, df)

SpecOwner == Init /\ [][NextOwner]_vars

\* what the auth endpoint answers: a failure, or one of two tokens
AuthAnswers == { None, "t1", "t2" }

\* session.get_auth().get_token()
GetToken(answer) ==
    LET got == get_token(session, answer)
    IN  /\ service' = [NoRequest EXCEPT !.op = "get_token",
                                        !.session = session,
                                        !.returned = got.token,
                                        !.http = got.http]
        /\ session' = [session EXCEPT !.token = got.token,
                                      !.token_expiration = got.token_expiration]
        /\ UNCHANGED <<resourceVars, probe, datasetVars, refs>>

\* a caller that asks for tokens and lists the data of collections
NextData ==
    \/ \E answer \in AuthAnswers : GetToken(answer)
    \/ \E collection_arg \in ServiceCollections, output_stac \in BOOLEAN,
          auth_ok \in BOOLEAN, features \in SeqsUpTo(ServiceFeatures, MaxFeatures) :
          GetCollectionData(collection_arg, output_stac, auth_ok, features)

SpecData == Init /\ [][NextData]_vars

(***************************************************************************)
(* Properties of data_files and data_locations (checked under SpecQuery). *)
(***************************************************************************)

\* the positions <<dataset, datafile>> of the datafiles of c
Positions(c) ==
    UNION {{<<i, j>> : j \in 1..Len(c.datasets[i].datafiles)} : i \in 1..Len(c.datasets)}

FileAt(c, p) == c.datasets[p[1]].datafiles[p[2]]

\* dataset insertion order, then datafile insertion order
Before(p, q) == p[1] < q[1] \/ (p[1] = q[1] /\ p[2] < q[2])

\* the positions a role filter keeps: all of them for the empty filter, else those
\* whose file has a role that is also in the filter
Kept(c, roles) ==
    {p \in Positions(c) :
        \/ roles = <<>>
        \/ \E k \in 1..Len(FileAt(c, p).roles), l \in 1..Len(roles) :
              FileAt(c, p).roles[k] = roles[l]}

Rank(c, roles, p) == Cardinality({q \in Kept(c, roles) : Before(q, p)}) + 1

\* C1: data_files(roles) returns, in dataset-then-datafile insertion order, each
\* entry of the collection exactly once when the filter is empty, and otherwise
\* exactly the entries whose roles share an element with the filter (none when
\* nothing matches).
C1_DataFilesOrderedAndFiltered ==
    queried.op = "data_files" =>
        /\ Len(queried.result) = Cardinality(Kept(collection, queried.roles))
        /\ \A p \in Kept(collection, queried.roles) :
              queried.result[Rank(collection, queried.roles, p)] = FileAt(collection, p)

\* a filter that overlaps a file's roles without containing them keeps that file and
\* drops the file of the other dataset
C1_Witness ==
    /\ queried.op = "data_files"
    /\ queried.roles = <<"data", "opendap">>
    /\ Len(collection.datasets) = 2
    /\ Cardinality(Positions(collection)) = 2
    /\ Len(queried.result) = 1
    /\ queried.result[1].roles = <<"data", "metadata">>

LocationsOfFiles(files) == [i \in 1..Len(files) |-> files[i].location]

\* C2: for every role filter, data_locations(R) is the sequence of the locations
\* of data_files(R), element by element, and so is what a data_locations call
\* returned.
C2_LocationsOfDataFiles ==
    /\ \A roles \in RoleFilters :
          data_locations(collection, roles)
              = LocationsOfFiles(data_files(collection, roles))
    /\ queried.op = "data_locations" =>
          queried.result = LocationsOfFiles(data_files(collection, queried.roles))

C2_Witness ==
    /\ queried.op = "data_locations"
    /\ queried.roles = <<"data">>
    /\ Cardinality(Positions(collection)) = 2
    /\ Len(queried.result) = 1

(***************************************************************************)
(* Properties of the to_stac / from_stac round trip (checked under Spec). *)
(***************************************************************************)

\* from_stac has read the catalog that the last to_stac wrote for the collection
RoundTrip == parsed.called /\ parsed.of # <<>>

ReadBack == parsed.result.returned[1]

UniqueId(c, i) == \A k \in 1..Len(c.datasets) : c.datasets[k].id = c.datasets[i].id => k = i

\* C3 as stated: after to_stac and from_stac the collection read back has the
\* collection_id of the original, as many datasets, and each dataset has the
\* collection_id of the corresponding original dataset.
C3_Original ==
    RoundTrip =>
        /\ parsed.result.raised = None
        /\ IF parsed.result.raised # None THEN FALSE
           ELSE /\ ReadBack.collection_id = collection.collection_id
                /\ Len(ReadBack.datasets) = Len(collection.datasets)
                /\ \A i \in 1..Len(collection.datasets) :
                      ReadBack.datasets[i].collection_id
                          = collection.datasets[i].collection_id

\* C3 (amended): after to_stac and from_stac the collection read back has the
\* collection_id of the original and as many datasets; a dataset whose id no other
\* dataset of the collection shares has the collection_id of the corresponding
\* original dataset when that is not null, and the collection's id when it is null.
C3_RoundTripIds ==
    RoundTrip =>
        /\ parsed.result.raised = None
        /\ IF parsed.result.raised # None THEN FALSE
           ELSE /\ ReadBack.collection_id = collection.collection_id
                /\ Len(ReadBack.datasets) = Len(collection.datasets)
                /\ \A i \in 1..Len(collection.datasets) :
                      UniqueId(collection, i) =>
                          ReadBack.datasets[i].collection_id
                              = IF collection.datasets[i].collection_id # None
                                THEN collection.datasets[i].collection_id
                                ELSE collection.collection_id

\* two datasets with their own ids, one declaring another collection than the
\* catalog's, written and read back
C3_Witness ==
    /\ RoundTrip
    /\ parsed.result.raised = None
    /\ Len(collection.datasets) = 2
    /\ collection.datasets[1].id # collection.datasets[2].id
    /\ collection.datasets[1].collection_id \notin {None, collection.collection_id}
    /\ collection.datasets[2].collection_id # None
    /\ parsed.result.returned[1].datasets[1].collection_id
          = collection.datasets[1].collection_id

\* the absolute form of the directory to_stac was given, followed by "/"
UnderDir(location, dir) ==
    /\ IsAbs(location)
    /\ StartsWith(location, RStrip(AbsPath(dir), "/") \o <<"/">>)

\* the locations that to_stac writes as hrefs relative to the directory: relative
\* paths, and absolute paths that begin with an absolute directory
WrittenRelative(location, dir) ==
    /\ ~is_uri(location)
    /\ \/ ~IsAbs(location)
       \/ IsAbs(dir) /\ StartsWith(location, RStrip(dir, "/"))

\* C4 as stated: after to_stac(c, D) and from_stac every datafile's location is an
\* absolute path under D.
C4_Original ==
    (RoundTrip /\ parsed.result.raised = None) =>
        \A i \in 1..Len(ReadBack.datasets) :
            \A j \in 1..Len(ReadBack.datasets[i].datafiles) :
                UnderDir(ReadBack.datasets[i].datafiles[j].location, parsed.of[1])

\* C4 (amended): when every datafile location of c is a relative path or an
\* absolute path that begins with an absolute D (and is no URI), then after
\* to_stac(c, D) and from_stac every datafile's location is an absolute path
\* under D.
C4_RoundTripLocations ==
    ( /\ RoundTrip
      /\ parsed.result.raised = None
      /\ \A p \in Positions(collection) :
            WrittenRelative(FileAt(collection, p).location, parsed.of[1]) ) =>
        \A i \in 1..Len(ReadBack.datasets) :
            \A j \in 1..Len(ReadBack.datasets[i].datafiles) :
                UnderDir(ReadBack.datasets[i].datafiles[j].location, parsed.of[1])

\* an absolute path under the directory and a relative path, in two datasets,
\* written and read back
C4_Witness ==
    /\ RoundTrip
    /\ parsed.result.raised = None
    /\ Len(collection.datasets) = 2
    /\ Len(collection.datasets[1].datafiles) = 1
    /\ Len(collection.datasets[2].datafiles) = 1
    /\ IsAbs(collection.datasets[1].datafiles[1].location)
    /\ ~IsAbs(collection.datasets[2].datafiles[1].location)
    /\ \A p \in Positions(collection) :
          WrittenRelative(FileAt(collection, p).location, parsed.of[1])
    /\ Cardinality(Positions(parsed.result.returned[1])) = 2

(***************************************************************************)
(* Properties of from_stac on staged documents (checked under SpecRead).  *)
(***************************************************************************)

\* the file from_stac was given, as the file system holds it now (no step changes
\* the file system once from_stac has been called)
ReadPath == AbsPath(parsed.file)

\* a catalog one of whose item links names a file that does not exist
DanglingLink(path) ==
    /\ fs[path].kind = "catalog"
    /\ \E i \in 1..Len(fs[path].links) :
          NormPath(Join(Dirname(path), fs[path].links[i])) \notin DOMAIN fs

\* an item collection one of whose features cannot be built into an Item
BadFeature(path) ==
    /\ fs[path].kind = "itemcollection"
    /\ \E i \in 1..Len(fs[path].features) : fs[path].features[i].kind = "baditem"

\* C5: from_stac raises UnityException, and nothing else, whenever it fails: the
\* file does not exist, is not JSON, is neither a Catalog nor an ItemCollection,
\* or an item of it cannot be read or built.
C5_OnlyUnityException ==
    parsed.called =>
        /\ parsed.result.raised \in {None, "UnityException"}
        /\ parsed.result.cause # None => parsed.result.raised = "UnityException"
        /\ ReadPath \notin DOMAIN fs => parsed.result.raised = "UnityException"
        /\ ( /\ ReadPath \in DOMAIN fs
             /\ \/ fs[ReadPath].kind \in {"corrupt", "other"}
                \/ DanglingLink(ReadPath)
                \/ BadFeature(ReadPath) ) => parsed.result.raised = "UnityException"

\* a feature whose asset has no href fails with a KeyError, which reaches the
\* caller as UnityException
C5_Witness ==
    /\ parsed.called
    /\ parsed.result.cause = "KeyError"
    /\ parsed.result.raised = "UnityException"

\* C6: when from_stac fails, also on a later item after earlier items were
\* converted, the caller gets the exception and no Collection.
C6_NoPartialCollection ==
    (parsed.called /\ parsed.result.cause # None) =>
        /\ parsed.result.raised # None
        /\ parsed.result.returned = <<>>

\* the second item of a catalog is missing after the first was converted
C6_Witness ==
    /\ parsed.called
    /\ parsed.result.mode = "catalog"
    /\ Len(parsed.result.items) = 2
    /\ parsed.result.items[1].exc = None
    /\ parsed.result.items[2].exc = "FileNotFoundError"
    /\ parsed.result.raised = "UnityException"
    /\ parsed.result.returned = <<>>

Parsed == parsed.called /\ parsed.result.raised = None

\* the collection id from_stac detects: the catalog's id, or the collection of the
\* first feature of an item collection (None when it declares none)
DetectedId ==
    IF parsed.result.mode = "catalog" THEN parsed.result.doc.id
    ELSE IF Len(parsed.result.doc.features) > 0
         THEN parsed.result.doc.features[1].collection
         ELSE None

\* C7: the collection_id of every Dataset that from_stac produces is the item's
\* own collection when the item declares one, and the detected collection id only
\* when it declares none.
C7_ItemCollectionWins ==
    Parsed =>
        \A i \in 1..Len(ReadBack.datasets) :
            ReadBack.datasets[i].collection_id
                = IF parsed.result.items[i].doc.collection # None
                  THEN parsed.result.items[i].doc.collection
                  ELSE DetectedId

\* an item that declares another collection than the detected one, beside an item
\* that declares none
C7_Witness ==
    /\ Parsed
    /\ DetectedId # None
    /\ \E i, k \in 1..Len(parsed.result.items) :
          /\ parsed.result.items[i].doc.collection \notin {None, DetectedId}
          /\ parsed.result.returned[1].datasets[i].collection_id
                = parsed.result.items[i].doc.collection
          /\ parsed.result.items[k].doc.collection = None
          /\ parsed.result.returned[1].datasets[k].collection_id = DetectedId

\* C8: the Collection from_stac returns has the catalog's id in catalog mode; in
\* item-collection mode it has the first feature's collection when that feature
\* declares one, and None otherwise.
C8_CollectionId ==
    Parsed =>
        /\ parsed.result.mode \in {"catalog", "itemcollection"}
        /\ parsed.result.mode = "catalog" =>
              ReadBack.collection_id = parsed.result.doc.id
        /\ parsed.result.mode = "itemcollection" =>
              ReadBack.collection_id
                  = IF /\ Len(parsed.result.doc.features) > 0
                       /\ parsed.result.doc.features[1].collection # None
                    THEN parsed.result.doc.features[1].collection
                    ELSE None

\* the first feature declares no collection and the second does: the id stays None
C8_Witness ==
    /\ Parsed
    /\ parsed.result.mode = "itemcollection"
    /\ Len(parsed.result.doc.features) = 2
    /\ parsed.result.doc.features[1].collection = None
    /\ parsed.result.doc.features[2].collection # None
    /\ parsed.result.returned[1].collection_id = None

\* C9 as stated: every Collection that Collection(id) or a successful from_stac
\* gives has a collection_id that is not None.
C9_Original ==
    /\ collection.collection_id # None
    /\ Parsed => ReadBack.collection_id # None

RECURSIVE CountAssets(_)
CountAssets(items) ==
    IF items = <<>> THEN 0 ELSE Len(items[1].doc.assets) + CountAssets(Tail(items))

\* the location from_stac gives an href read beside stac_file
Resolved(href, stac_file) ==
    IF is_uri(href) \/ IsAbs(href) THEN href
    ELSE Join(AbsPath(Dirname(stac_file)), href)

\* C10: from_stac gives one Dataset per item, in item order, and each Dataset has
\* one DataFile per asset of its item, in asset order; data_files() has as many
\* entries as the items have assets.
C10_OneDataFilePerAsset ==
    Parsed =>
        /\ Len(ReadBack.datasets) = Len(parsed.result.items)
        /\ \A i \in 1..Len(parsed.result.items) :
              LET item == parsed.result.items[i].doc
                  ds == ReadBack.datasets[i]
              IN  /\ ds.id = item.id
                  /\ Len(ds.datafiles) = Len(item.assets)
                  /\ \A j \in 1..Len(item.assets) :
                        ds.datafiles[j].location
                            = Resolved(item.assets[j].href, parsed.file)
        /\ Len(data_files(ReadBack, <<>>)) = CountAssets(parsed.result.items)

\* two granules with data, opendap and metadata assets give six datafiles, two of
\* them with the role data
C10_Witness ==
    /\ Parsed
    /\ parsed.result.mode = "itemcollection"
    /\ Len(parsed.result.items) = 2
    /\ \A i \in 1..2 : Len(parsed.result.items[i].doc.assets) = 3
    /\ Len(data_files(parsed.result.returned[1], <<>>)) = 6
    /\ Len(data_files(parsed.result.returned[1], <<"data">>)) = 2
    /\ Len(data_files(parsed.result.returned[1], <<"data", "opendap">>)) = 2
    /\ Len(data_files(parsed.result.returned[1], <<"data", "opendap", "metadata">>)) = 4

\* the role list of an asset as the document gives it, empty when it gives none
GivenRoles(asset) == IF "roles" \in DOMAIN asset THEN asset.roles ELSE <<>>

\* C11: for each asset read by from_stac, the DataFile's roles are [key] when the
\* asset's role list is absent or empty and the key is exactly "data" or
\* "metadata", the role list unchanged when it is not empty, and empty otherwise.
C11_RoleDefaulting ==
    Parsed =>
        \A i \in 1..Len(parsed.result.items) :
            \A j \in 1..Len(parsed.result.items[i].doc.assets) :
                LET asset == parsed.result.items[i].doc.assets[j]
                    roles == ReadBack.datasets[i].datafiles[j].roles
                IN  /\ GivenRoles(asset) # <<>> => roles = GivenRoles(asset)
                    /\ (GivenRoles(asset) = <<>> /\ asset.key = <<"data">>) =>
                          roles = <<"data">>
                    /\ (GivenRoles(asset) = <<>> /\ asset.key = <<"metadata">>) =>
                          roles = <<"metadata">>
                    /\ (GivenRoles(asset) = <<>>
                          /\ asset.key \notin {<<"data">>, <<"metadata">>}) =>
                          roles = <<>>

\* a catalog whose items have a data asset without a role list, a metadata asset
\* with an empty one and an opendap asset without one
C11_Witness ==
    /\ Parsed
    /\ parsed.result.mode = "catalog"
    /\ \E i, k \in 1..Len(parsed.result.items) :
          LET given == parsed.result.items[i].doc.assets
              plain == parsed.result.items[k].doc.assets
              files == parsed.result.returned[1].datasets[i].datafiles
          IN  /\ Len(given) = 3
              /\ "roles" \notin DOMAIN given[2]
              /\ given[2].key = <<"opendap">>
              /\ files[2].roles = <<>>
              /\ given[3].roles = <<>>
              /\ files[3].roles = <<"metadata">>
              /\ "roles" \notin DOMAIN plain[1]
              /\ parsed.result.returned[1].datasets[k].datafiles[1].roles = <<"data">>
    /\ Len(data_files(parsed.result.returned[1], <<"metadata">>)) = 1

(***************************************************************************)
(* Properties of the locations and keys that from_stac and to_stac give   *)
(* (checked under Spec, where the hrefs are those to_stac wrote).         *)
(***************************************************************************)

\* C12: every DataFile location produced by from_stac is the asset href unchanged
\* when the href is a URI or an absolute path, and otherwise the join of the
\* absolute directory of the STAC file with the href; so every location is a URI
\* or an absolute path.
C12_LocationResolved ==
    Parsed =>
        \A i \in 1..Len(parsed.result.items) :
            \A j \in 1..Len(parsed.result.items[i].doc.assets) :
                LET href == parsed.result.items[i].doc.assets[j].href
                    location == ReadBack.datasets[i].datafiles[j].location
                IN  /\ (is_uri(href) \/ IsAbs(href)) => location = href
                    /\ ~(is_uri(href) \/ IsAbs(href)) =>
                          location = Join(AbsPath(Dirname(parsed.file)), href)
                    /\ is_uri(location) \/ IsAbs(location)

\* a catalog named by a relative path, with a relative href and a URI href
C12_Witness ==
    /\ Parsed
    /\ ~IsAbs(parsed.file)
    /\ \E i, k \in 1..Len(parsed.result.items) :
          \E j \in 1..Len(parsed.result.items[i].doc.assets),
             l \in 1..Len(parsed.result.items[k].doc.assets) :
              /\ ~is_uri(parsed.result.items[i].doc.assets[j].href)
              /\ ~IsAbs(parsed.result.items[i].doc.assets[j].href)
              /\ IsAbs(parsed.result.returned[1].datasets[i].datafiles[j].location)
              /\ is_uri(parsed.result.items[k].doc.assets[l].href)
              /\ is_uri(parsed.result.returned[1].datasets[k].datafiles[l].location)

(***************************************************************************)
(* Properties of is_uri (checked under SpecUri).                          *)
(***************************************************************************)

\* the characters of a path before its first ":", the whole path when it has none
Scheme(path) ==
    LET at == {i \in 1..Len(path) : path[i] = ":"}
    IN  IF at = {} THEN path
        ELSE SubSeq(path, 1, (CHOOSE i \in at : \A j \in at : i <= j) - 1)

HasColon(path) == \E i \in 1..Len(path) : path[i] = ":"

UriSchemes == { <<"h", "t", "t", "p">>, <<"h", "t", "t", "p", "s">>, <<"s", "3">> }

\* C13: is_uri(path) is true exactly when the path starts with "http:", "https:" or
\* "s3:"; the call changes nothing else; to_stac and from_stac both leave a path
\* alone exactly as is_uri says, and every path is in exactly one of the classes
\* URI, absolute path and relative path: no URI is an absolute path.
C13_IsUriClassification ==
    probe.called =>
        /\ probe.uri = (HasColon(probe.path) /\ Scheme(probe.path) \in UriSchemes)
        /\ probe.uri => ~IsAbs(probe.path)
        /\ probe.uri => (probe.item_location = probe.path /\ probe.location = probe.path)
        /\ (~probe.uri /\ IsAbs(probe.path)) => probe.location = probe.path
        /\ (~probe.uri /\ ~IsAbs(probe.path)) =>
              /\ probe.location = Join(ProbeDir, probe.path)
              /\ probe.location # probe.path
        /\ fs = StagedFiles /\ Len(collection.datasets) = 0
        /\ ~parsed.called /\ written.status = "none" /\ queried.op = "none"

\* "https:f" is classified as a URI and kept by both rewriters
C13_Witness ==
    /\ probe.called
    /\ probe.path = <<"h", "t", "t", "p", "s", ":", "f">>
    /\ probe.uri
    /\ probe.location = probe.path

\* the item documents that to_stac wrote
WrittenItems ==
    {p \in DOMAIN fs \ DOMAIN StagedFiles : written.status = "ok" /\ fs[p].kind = "item"}

\* C14: no asset key written by to_stac starts with "./", whatever the location of
\* the datafile and whatever the target directory.
C14_NoDotSlashKey ==
    \A p \in WrittenItems :
        \A j \in 1..Len(fs[p].assets) :
            ~StartsWith(fs[p].assets[j].key, <<".", "/">>)

\* a datafile under the target directory is written with an href that starts
\* with "./" and a key that is its basename
C14_Witness ==
    \E p \in WrittenItems :
        \E j \in 1..Len(fs[p].assets) :
            /\ StartsWith(fs[p].assets[j].href, <<".", "/">>)
            /\ fs[p].assets[j].key = Basename(fs[p].assets[j].href)
            /\ \E q \in Positions(collection) :
                  /\ IsAbs(FileAt(collection, q).location)
                  /\ Basename(FileAt(collection, q).location) = fs[p].assets[j].key

(***************************************************************************)
(* Properties of the directory that to_stac writes (checked under Spec).  *)
(***************************************************************************)

\* the absolute directory that the last to_stac wrote into
WrittenRoot == AbsPath(RStrip(written.dir, "/"))

\* the documents of a kind that lie directly in a directory
DocsIn(dir, kind) == {p \in DOMAIN fs : Dirname(p) = dir /\ fs[p].kind = kind}

\* the item documents anywhere below a directory
ItemsBelow(dir) ==
    {p \in DOMAIN fs : StartsWith(p, dir \o <<"/">>) /\ fs[p].kind = "item"}

DatasetIds(c) == {c.datasets[i].id : i \in 1..Len(c.datasets)}

\* the last dataset of c with an id
LastWithId(c, id) ==
    c.datasets[CHOOSE i \in 1..Len(c.datasets) :
                  /\ c.datasets[i].id = id
                  /\ \A k \in 1..Len(c.datasets) : c.datasets[k].id = id => k <= i]

\* C15 as stated: after to_stac(c, D), D holds one root catalog document and
\* exactly one item document for each Dataset of c, at the catalog root, named by
\* the item id alone.
C15_Original ==
    written.status = "ok" =>
        /\ Cardinality(DocsIn(WrittenRoot, "catalog")) = 1
        /\ Cardinality(ItemsBelow(WrittenRoot)) = Len(collection.datasets)
        /\ \A p \in ItemsBelow(WrittenRoot) :
              /\ Dirname(p) = WrittenRoot
              /\ Basename(p) = fs[p].id \o <<".json">>

\* C15 (amended): after a to_stac(c, D) that returns, D holds one root catalog
\* document with the id of c and exactly one item document for each distinct
\* Dataset id of c, at the catalog root, named by the item id alone; the document
\* of an id is the item of the last Dataset of c with that id.
C15_FlatLayout ==
    written.status = "ok" =>
        /\ Cardinality(DocsIn(WrittenRoot, "catalog")) = 1
        /\ \A p \in DocsIn(WrittenRoot, "catalog") :
              /\ Basename(p) = <<"catalog.json">>
              /\ fs[p].id = collection.collection_id
              /\ Len(fs[p].links) = Len(collection.datasets)
        /\ Cardinality(ItemsBelow(WrittenRoot)) = Cardinality(DatasetIds(collection))
        /\ \A p \in ItemsBelow(WrittenRoot) :
              /\ Dirname(p) = WrittenRoot
              /\ Basename(p) = fs[p].id \o <<".json">>
              /\ fs[p].id \in DatasetIds(collection)
              /\ fs[p].collection = LastWithId(collection, fs[p].id).collection_id
        /\ \A id \in DatasetIds(collection) :
              \E p \in ItemsBelow(WrittenRoot) : fs[p].id = id

\* two datasets with their own ids, written into a directory given with a
\* dangling "/"
C15_Witness ==
    /\ written.status = "ok"
    /\ written.dir = <<"/", "d", "/">>
    /\ Len(collection.datasets) = 2
    /\ Cardinality(DatasetIds(collection)) = 2
    /\ Cardinality(ItemsBelow(WrittenRoot)) = 2
    /\ Cardinality(DocsIn(WrittenRoot, "item")) = 2

(***************************************************************************)
(* Properties of Dataset.add_data_file (checked under SpecDataset).       *)
(***************************************************************************)

\* C16: after n add_data_file calls on a newly constructed Dataset, whatever is
\* repeated among them, the Dataset has n datafiles and they are the datafiles of
\* the calls in call order.
C16_NoDeduplication ==
    /\ Len(dataset.datafiles) = Len(added)
    /\ \A n \in 1..Len(added) : dataset.datafiles[n] = added[n]

\* the same datafile three times, and two datafiles of one location
C16_Witness ==
    /\ Len(added) = 3
    /\ added[1] = added[2]
    /\ added[3] # added[2]
    /\ added[3].location = added[2].location
    /\ Len(dataset.datafiles) = 3
    /\ dataset.datafiles[2] = dataset.datafiles[1]

(***************************************************************************)
(* Properties of the datasets of a Collection (checked under SpecOps).    *)
(***************************************************************************)

\* a dataset without regard to the datafiles added to it
Header(d) == [d EXCEPT !.datafiles = <<>>]

\* every dataset of c is at the same place in c2, with at least the same datafiles
\* in front
KeptIn(c, c2) ==
    /\ Len(c.datasets) <= Len(c2.datasets)
    /\ \A i \in 1..Len(c.datasets) :
          /\ Header(c2.datasets[i]) = Header(c.datasets[i])
          /\ Len(c.datasets[i].datafiles) <= Len(c2.datasets[i].datafiles)
          /\ SubSeq(c2.datasets[i].datafiles, 1, Len(c.datasets[i].datafiles))
                = c.datasets[i].datafiles

\* C17: over any sequence of add_dataset, data_files, data_locations and to_stac
\* calls the datasets of a Collection only grow at the end: every step leaves each
\* dataset that is present where it is, adds at most one, and only add_dataset
\* adds one.
C17_DatasetsAppendOnly ==
    [][ /\ KeptIn(collection, collection')
        /\ Len(collection'.datasets) <= Len(collection.datasets) + 1
        /\ (queried' # queried \/ written' # written \/ fs' # fs) =>
              collection' = collection ]_vars

\* a dataset was added after the collection had been queried and written, and the
\* first dataset is still the first
C17_Witness ==
    /\ written.status = "ok"
    /\ queried.op = "data_files"
    /\ Len(queried.result) = 1
    /\ Len(collection.datasets) = 2
    /\ collection.datasets[1] # collection.datasets[2]
    /\ Cardinality(ItemsBelow(WrittenRoot)) = 1

(***************************************************************************)
(* Properties of add_property over the round trip (checked under          *)
(* SpecProps).                                                             *)
(***************************************************************************)

\* the keys that to_stac writes for every item
BaseKeys == {"datetime", "start_datetime", "end_datetime", "created", "updated"}

\* C18 as stated: a property added to a dataset is, after to_stac and from_stac,
\* in the properties of the dataset with the same id and of no other dataset.
C18_Original ==
    RoundTrip =>
        /\ parsed.result.raised = None
        /\ IF parsed.result.raised # None THEN FALSE
           ELSE \A i \in 1..Len(collection.datasets) :
                  \A k \in DOMAIN collection.datasets[i].properties :
                     \A j \in 1..Len(ReadBack.datasets) :
                        (k \in DOMAIN ReadBack.datasets[j].properties)
                            = (ReadBack.datasets[j].id = collection.datasets[i].id)

\* C18 (amended): a property added with add_property to a dataset whose id no other
\* dataset of the collection shares, under a key that is none of datetime,
\* start_datetime, end_datetime, created and updated, is after to_stac and
\* from_stac in the properties of the dataset with that id, with its value, and in
\* the properties of no other dataset unless the key was added to another
\* dataset too.
C18_PropertyRoundTrip ==
    RoundTrip =>
        /\ parsed.result.raised = None
        /\ IF parsed.result.raised # None THEN FALSE
           ELSE \A i \in 1..Len(collection.datasets) :
                  \A k \in DOMAIN collection.datasets[i].properties \ BaseKeys :
                     UniqueId(collection, i) =>
                        /\ ReadBack.datasets[i].id = collection.datasets[i].id
                        /\ k \in DOMAIN ReadBack.datasets[i].properties
                        /\ ReadBack.datasets[i].properties[k]
                              = collection.datasets[i].properties[k]
                        /\ \A j \in 1..Len(ReadBack.datasets) :
                              ( /\ j # i
                                /\ \A m \in 1..Len(collection.datasets) :
                                      m # i => k \notin DOMAIN collection.datasets[m].properties )
                              => k \notin DOMAIN ReadBack.datasets[j].properties

\* one of two datasets has percent_cloud_cover, and one dataset has it when the
\* collection is read back
C18_Witness ==
    /\ RoundTrip
    /\ parsed.result.raised = None
    /\ Len(collection.datasets) = 2
    /\ collection.datasets[1].id # collection.datasets[2].id
    /\ "percent_cloud_cover" \in DOMAIN collection.datasets[1].properties
    /\ "percent_cloud_cover" \notin DOMAIN collection.datasets[2].properties
    /\ Cardinality({j \in 1..Len(parsed.result.returned[1].datasets) :
          "percent_cloud_cover" \in DOMAIN parsed.result.returned[1].datasets[j].properties}) = 1

(***************************************************************************)
(* Properties of the session and its services (checked under SpecSession). *)
(***************************************************************************)

\* the last call was create_collection with this collection
Created == service.op = "create_collection"

\* the id of the collection handed over begins with the session's prefix
HasPrefix ==
    /\ service.collection[1].collection_id # NoneId
    /\ Len(service.collection[1].collection_id) >= 4
    /\ service.collection[1].collection_id[1] = "urn:nasa:unity:"
    /\ service.collection[1].collection_id[2] = service.session.project
    /\ service.collection[1].collection_id[3] = ":"
    /\ service.collection[1].collection_id[4] = service.session.venue

ChecksPass ==
    /\ service.collection # <<>>
    /\ service.session.project # None
    /\ service.session.venue # None
    /\ HasPrefix

\* C19 as stated: create_collection raises UnityException when the collection is
\* None, when project or venue is unset, or when collection_id does not start with
\* urn:nasa:unity:<project>:<venue>; when the three checks pass and dry_run is true
\* it returns without raising and without an HTTP request.
C19_Original ==
    Created =>
        /\ ~ChecksPass => service.raised = "UnityException"
        /\ (ChecksPass /\ service.dry_run) =>
              (service.raised = None /\ service.http = <<>>)

\* the same holds of the collections that have an id
CreateCollectionWithId ==
    (Created /\ (service.collection = <<>> \/ service.collection[1].collection_id # NoneId)) =>
        /\ ~ChecksPass => service.raised = "UnityException"
        /\ (ChecksPass /\ service.dry_run) =>
              (service.raised = None /\ service.http = <<>>)

\* C20: get_venue_id returns the venue_id when one is set, otherwise
\* "<project>/<venue>" when project and venue are both set, and otherwise raises
\* UnityException; so asking for the PROCESS_SERVICE client on a session without
\* venue_id, project and venue raises UnityException.
C20_VenueId ==
    /\ service.op = "get_venue_id" =>
          /\ service.session.venue_id # None =>
                (service.raised = None /\ service.returned = service.session.venue_id)
          /\ ( /\ service.session.venue_id = None
               /\ service.session.project # None
               /\ service.session.venue # None ) =>
                /\ service.raised = None
                /\ service.returned
                      = service.session.project \o "/" \o service.session.venue
          /\ ( /\ service.session.venue_id = None
               /\ (service.session.project = None \/ service.session.venue = None) ) =>
                (service.raised = "UnityException" /\ service.returned = None)
    /\ ( /\ service.op = "client"
         /\ service.name = "PROCESS_SERVICE"
         /\ service.session.venue_id = None
         /\ service.session.project = None
         /\ service.session.venue = None ) =>
          service.raised = "UnityException"

\* venue_id, project and venue are all set, and get_venue_id gives the venue_id
C20_Witness ==
    /\ service.op = "get_venue_id"
    /\ service.session.project = "unity"
    /\ service.session.venue = "test"
    /\ service.session.venue_id = "unity-sips-test"
    /\ service.returned = "unity-sips-test"

(***************************************************************************)
(* Properties of the order in which from_stac tries its parsers (checked  *)
(* under SpecRead).                                                        *)
(***************************************************************************)

\* C21: from_stac tries the catalog parser first and the item-collection parser
\* only when the file is there, can be read and decoded and is no Catalog; when
\* the file is missing, cannot be opened or is not JSON, the item-collection
\* parser is not tried and the failure reaches the caller as it stands.
C21_ParseOrder ==
    parsed.called =>
        /\ parsed.result.attempts[1] = "catalog"
        /\ parsed.result.attempts \in {<<"catalog">>, <<"catalog", "itemcollection">>}
        /\ (parsed.result.attempts = <<"catalog", "itemcollection">>)
              = ( /\ ReadPath \in DOMAIN fs
                  /\ fs[ReadPath].kind \in {"itemcollection", "other"} )
        /\ ReadPath \notin DOMAIN fs =>
              /\ parsed.result.cause = "FileNotFoundError"
              /\ parsed.result.raised = "UnityException"
        /\ (ReadPath \in DOMAIN fs /\ fs[ReadPath].kind = "corrupt") =>
              /\ parsed.result.cause = "JSONDecodeError"
              /\ parsed.result.raised = "UnityException"
        /\ (ReadPath \in DOMAIN fs /\ fs[ReadPath].kind = "unreadable") =>
              /\ parsed.result.cause = "PermissionError"
              /\ parsed.result.raised = "UnityException"

\* a file that cannot be opened: one attempt, and the failure is reported
C21_Witness ==
    /\ parsed.called
    /\ ReadPath \in DOMAIN fs
    /\ fs[ReadPath].kind = "unreadable"
    /\ parsed.result.attempts = <<"catalog">>
    /\ parsed.result.raised = "UnityException"

(***************************************************************************)
(* Properties of the asset hrefs that to_stac writes (checked under Spec). *)
(***************************************************************************)

\* the location with the directory replaced by "." where the location starts with
\* it, and nowhere else
LeadingReplaced(location, data_dir) ==
    IF StartsWith(location, data_dir)
    THEN <<".">> \o SubSeq(location, Len(data_dir) + 1, Len(location))
    ELSE location

\* C22: every asset href written by to_stac is the location of a datafile of the
\* dataset, verbatim when the location is a URI, and otherwise with only a leading
\* occurrence of the target directory (its trailing "/" stripped) replaced by ".".
C22_Original ==
    \A p \in WrittenItems :
        \A j \in 1..Len(fs[p].assets) :
            \E q \in Positions(collection) :
                /\ collection.datasets[q[1]].id = fs[p].id
                /\ fs[p].assets[j].href =
                      IF is_uri(FileAt(collection, q).location)
                      THEN FileAt(collection, q).location
                      ELSE LeadingReplaced(FileAt(collection, q).location,
                                           RStrip(written.dir, "/"))

\* the key that to_stac derives for a datafile
DerivedKey(df, dir) == AssetKey(ItemLocation(df.location, RStrip(dir, "/")))

\* the last datafile of a dataset that derives a key
LastWithKey(d, key, dir) ==
    d.datafiles[CHOOSE j \in 1..Len(d.datafiles) :
                   /\ DerivedKey(d.datafiles[j], dir) = key
                   /\ \A k \in 1..Len(d.datafiles) :
                         DerivedKey(d.datafiles[k], dir) = key => k <= j]

\* C23: to_stac returns although datafiles of a dataset derive the same asset
\* key; the written item has exactly one asset for each distinct derived key, and
\* that asset is the one of the last datafile deriving the key.
C23_LastAssetWins ==
    /\ (\A i \in 1..Len(collection.datasets) :
           Parseable(collection.datasets[i].data_begin_time))
          => written.status \in {"none", "ok"}
    /\ \A p \in WrittenItems :
        LET d == LastWithId(collection, fs[p].id)
            assets == fs[p].assets
        IN  /\ \A j, k \in 1..Len(assets) : assets[j].key = assets[k].key => j = k
            /\ {assets[j].key : j \in 1..Len(assets)}
                  = {DerivedKey(d.datafiles[j], written.dir) : j \in 1..Len(d.datafiles)}
            /\ \A j \in 1..Len(assets) :
                  LET df == LastWithKey(d, assets[j].key, written.dir)
                  IN  /\ assets[j].href = ItemLocation(df.location, RStrip(written.dir, "/"))
                      /\ assets[j].roles = df.roles
                      /\ assets[j].title = df.type \o " file"

\* two datafiles with different roles derive the same key, and the written item
\* holds the one asset of the second
C23_Witness ==
    \E p \in WrittenItems :
        LET d == LastWithId(collection, fs[p].id)
        IN  /\ Len(d.datafiles) = 2
            /\ DerivedKey(d.datafiles[1], written.dir) = DerivedKey(d.datafiles[2], written.dir)
            /\ d.datafiles[1].roles # d.datafiles[2].roles
            /\ Len(fs[p].assets) = 1
            /\ fs[p].assets[1].roles = d.datafiles[2].roles

(***************************************************************************)
(* Properties of the item properties that to_stac writes (checked under   *)
(* SpecProps).                                                             *)
(***************************************************************************)

\* the base map of a dataset: its times, and the time of the call
BaseMap(d) ==
    [k \in BaseKeys |->
        CASE k \in {"datetime", "start_datetime"} -> d.data_begin_time
          [] k = "end_datetime" -> d.data_end_time
          [] k = "created" -> IF d.data_create_time = None THEN Now ELSE d.data_create_time
          [] OTHER -> Now]

\* the base map with the properties of the dataset laid over it
Overlaid(d) ==
    [k \in BaseKeys \cup DOMAIN d.properties |->
        IF k \in DOMAIN d.properties THEN d.properties[k] ELSE BaseMap(d)[k]]

\* C24 as stated: the properties of every written item are the base map
\* {datetime, start_datetime, end_datetime, created, updated} with the properties
\* of the dataset laid over it, created being the value of updated when
\* data_create_time is null.
C24_Original ==
    \A p \in WrittenItems :
        fs[p].properties = Overlaid(LastWithId(collection, fs[p].id))

\* C24 (amended): the properties of every written item are the base map with the
\* properties of the dataset laid over it, but for the key datetime, which holds
\* the parsed data_begin_time in the ISO 8601 form whatever the dataset holds
\* under datetime.
C24_PropertiesOverlay ==
    \A p \in WrittenItems :
        LET d == LastWithId(collection, fs[p].id)
        IN  /\ DOMAIN fs[p].properties = BaseKeys \cup DOMAIN d.properties
            /\ \A k \in DOMAIN fs[p].properties \ {"datetime"} :
                  fs[p].properties[k] = Overlaid(d)[k]
            /\ fs[p].properties["datetime"] \in {T1, T2}
            /\ d.data_begin_time \in {T1, T3} => fs[p].properties["datetime"] = T1

\* a dataset without creation time and with a property of its own under created is
\* written with that property as created, and with the time of the call as updated
C24_Witness ==
    \E p \in WrittenItems :
        LET d == LastWithId(collection, fs[p].id)
        IN  /\ d.data_create_time = None
            /\ "created" \in DOMAIN d.properties
            /\ fs[p].properties["created"] = d.properties["created"]
            /\ fs[p].properties["created"] # Now
            /\ fs[p].properties["updated"] = Now
            /\ fs[p].properties["start_datetime"] = d.data_begin_time

(***************************************************************************)
(* Properties of the properties of a Dataset (checked under SpecDataset).  *)
(***************************************************************************)

\* C25 as stated: the properties of a Dataset built by the constructor and by
\* add_property calls never hold start_datetime, end_datetime or created.
C25_Original == DOMAIN dataset.properties \cap ReservedKeys = {}

\* C25 (amended): the constructor leaves start_datetime, end_datetime and created
\* out of the properties, whatever its properties argument holds; add_data_file
\* leaves the properties alone; add_property(key, value) stores the value under
\* the key, a reserved key included, and changes nothing else.
C25_ReservedKeysFilteredByConstructor ==
    [][ /\ (\E args \in DatasetArgs, properties \in PropertyArgs :
               DatasetInit(args, properties))
            => DOMAIN dataset'.properties \cap ReservedKeys = {}
        /\ (\E df \in AddedFiles : DatasetAddDataFile(df))
            => dataset'.properties = dataset.properties
        /\ \A key \in PropertyKeys, value \in PropertyValues :
              DatasetAddProperty(key, value) =>
                  /\ DOMAIN dataset'.properties = DOMAIN dataset.properties \cup {key}
                  /\ dataset'.properties[key] = value
                  /\ \A k \in DOMAIN dataset.properties \ {key} :
                        dataset'.properties[k] = dataset.properties[k]
      ]_vars

\* a Dataset constructed from item properties holds percent_cloud_cover and no
\* reserved key, and holds created after add_property("created", ...)
C25_Witness ==
    /\ DOMAIN dataset.properties = {"percent_cloud_cover", "created"}
    /\ dataset.properties["created"] \in PropertyValues
    /\ dataset.data_create_time # dataset.properties["created"]

(***************************************************************************)
(* Properties of DataService.get_collection_data (checked under            *)
(* SpecSession).                                                           *)
(***************************************************************************)

\* get_collection_data returned its Datasets
Listed ==
    /\ service.op = "get_collection_data"
    /\ service.raised = None
    /\ ~service.output_stac

\* C26: every DataFile that get_collection_data builds has the roles that from_stac
\* gives a DataFile for the same asset key and the same declared roles.
C26_Original ==
    Listed =>
        \A i \in 1..Len(service.datasets) :
            \A j \in 1..Len(service.datasets[i].datafiles) :
                service.datasets[i].datafiles[j].roles
                    = AssetDataFile(service.features[i].assets[j], <<"/">>).roles

(***************************************************************************)
(* Properties of the Dataset objects of Collections (checked under         *)
(* SpecOwner).                                                             *)
(***************************************************************************)

\* the places where a Dataset object is listed: <<collection, index>>
ListedAt(h) ==
    {<<n, i>> \in CollectionIds \X (1..MaxAdds) :
        /\ i <= Len(refs.collections[n].datasets)
        /\ refs.collections[n].datasets[i] = h}

\* C27: after any add_dataset calls on any Collections, a Dataset object that was
\* added is listed in one Collection and once there.
C27_Original ==
    \A h \in 1..Len(refs.objects) : Cardinality(ListedAt(h)) <= 1

(***************************************************************************)
(* Properties of a to_stac that fails (checked under Spec).              *)
(***************************************************************************)

\* the datasets of the collection whose begin time is None or no timestamp
Unparseable ==
    {i \in 1..Len(collection.datasets) :
        collection.datasets[i].data_begin_time \notin {T1, T2, T3}}

\* C28: when the begin time of a dataset is None or no timestamp, to_stac raises
\* the error of the parser, TypeError or ParserError and not UnityException, and
\* no catalog and no item file has been written, whatever datasets come before
\* the one that cannot be parsed.
C28_ParseErrorWritesNothing ==
    written.status # "none" =>
        /\ (written.status = "ok") = (Unparseable = {})
        /\ Unparseable # {} =>
              /\ written.status \in {"TypeError", "ParserError"}
              /\ \A i \in Unparseable :
                    (\A k \in Unparseable : i <= k) =>
                        written.status = IF collection.datasets[i].data_begin_time = None
                                         THEN "TypeError" ELSE "ParserError"
              /\ fs = StagedFiles
              /\ \A p \in DOMAIN fs : ~StartsWith(p, WrittenRoot \o <<"/">>)

\* the second dataset has no timestamp, the first has one and a datafile, and
\* to_stac raised ParserError and wrote nothing
C28_Witness ==
    /\ written.status = "ParserError"
    /\ Len(collection.datasets) = 2
    /\ collection.datasets[1].data_begin_time = T1
    /\ Len(collection.datasets[1].datafiles) = 1
    /\ collection.datasets[2].data_begin_time = T5
    /\ fs = StagedFiles

(***************************************************************************)
(* Properties of the roles over the round trip (checked under Spec).      *)
(***************************************************************************)

\* the datafile of a dataset derives a key no other datafile of the dataset derives
UniqueKey(d, j, dir) ==
    \A k \in 1..Len(d.datafiles) :
        DerivedKey(d.datafiles[k], dir) = DerivedKey(d.datafiles[j], dir) => k = j

\* the datafiles read back for dataset i from the asset that datafile j was
\* written as
ReadBackOf(i, j) ==
    LET href == ItemLocation(collection.datasets[i].datafiles[j].location,
                             RStrip(parsed.of[1], "/"))
        back == ReadBack.datasets[i].datafiles
    IN  {k \in 1..Len(back) :
            back[k].location = AssetLocation(href, StacDir(parsed.file))}

\* a datafile with roles and a key of its own is read back once, with its roles,
\* and every role filter selects it after the round trip if it did before
RolesKept(i, j) ==
    LET df == collection.datasets[i].datafiles[j]
    IN  ( /\ df.roles # <<>>
          /\ UniqueKey(collection.datasets[i], j, parsed.of[1]) ) =>
            /\ i <= Len(ReadBack.datasets)
            /\ Cardinality(ReadBackOf(i, j)) = 1
            /\ \A k \in ReadBackOf(i, j) :
                  /\ ReadBack.datasets[i].datafiles[k].roles = df.roles
                  /\ \A R \in RoleFilters :
                        (df \in Range(data_files(collection, R)))
                            = (ReadBack.datasets[i].datafiles[k]
                                  \in Range(data_files(ReadBack, R)))

\* C29 as stated: every datafile with a non-empty role list whose derived asset key
\* is unique within its dataset is read back, after to_stac and from_stac, with the
\* same roles, and data_files(R) selects it after the round trip when it did before.
C29_Original ==
    (RoundTrip /\ parsed.result.raised = None) =>
        \A p \in Positions(collection) : RolesKept(p[1], p[2])

\* C29 (amended): the same, for the datafiles of a dataset whose id no other dataset
\* of the collection shares.
C29_RolesRoundTrip ==
    (RoundTrip /\ parsed.result.raised = None) =>
        \A p \in Positions(collection) :
            UniqueId(collection, p[1]) => RolesKept(p[1], p[2])

\* a datafile with the roles data and metadata, in a dataset with a second
\* datafile, is read back with both roles
C29_Witness ==
    /\ RoundTrip
    /\ parsed.result.raised = None
    /\ \E p \in Positions(collection) :
          /\ UniqueId(collection, p[1])
          /\ Len(collection.datasets[p[1]].datafiles) = 2
          /\ UniqueKey(collection.datasets[p[1]], p[2], parsed.of[1])
          /\ FileAt(collection, p).roles = <<"data", "metadata">>
          /\ \E k \in ReadBackOf(p[1], p[2]) :
                ReadBack.datasets[p[1]].datafiles[k].roles = <<"data", "metadata">>

(***************************************************************************)
(* Properties of UnityAuth.get_token (checked under SpecData).             *)
(***************************************************************************)

====
